---- MODULE Spec2Model ----
(***************************************************************************)
(* Cell Clash room server (src/server.js, the ES-module server that starts  *)
(* at line 567): rooms, agents, blobs, the /create, /join and /input       *)
(* handlers and the per-room tick.                                         *)
(*                                                                         *)
(* Numbers.  The code computes in IEEE doubles.  The model computes in     *)
(* fixed point: a length, a mass, a speed or a fraction f is the integer   *)
(* f * U with U = 10^5, so every decay step of the code (0.00064 is the    *)
(* smallest) is a whole number of units.  Products are formed so that no   *)
(* intermediate value leaves 32 bits.  Distances are compared on squares,  *)
(* after the operands are cut to 0.01 (contact tests) or 0.1 (bot          *)
(* perception) world units.                                                *)
(*                                                                         *)
(* Randomness.  room.rng() and Math.random() are inputs: every draw is an  *)
(* integer k standing for k / U, chosen from a small set per call site.    *)
(* Colours are drawn by the code but never read by it; they are left out.  *)
(*                                                                         *)
(* Environments.  A run fixes the values its random sources return and the *)
(* requests its clients send: "arena" (Spec: bots, pellets and two viruses *)
(* on one spawn point), "duel" (SpecDuel: one bot and one human),          *)
(* "lobby" (SpecLobby: humans joining and timing out), "wall" (SpecWall:    *)
(* one human splitting toward a wall), "feast", "run", "setup" and "hunt"  *)
(* (described where they are defined).  The handlers and the tick are the  *)
(* same in all of them.                                                    *)
(***************************************************************************)
EXTENDS Integers, Sequences, FiniteSets, TLC

\* rooms: the Map code -> room.  now: the wall clock Date.now() reads, in
\* seconds.  env: the environment of the run, fixed at start: the values the
\* random sources return and the requests the clients send.  nreq: the number
\* of accepted /join and /input requests so far (bounded by E.maxReq).
\* last: the last step (start, create, join, input, state, elapse, tick), the room
\* code and agent id of its request, whether it asked for a split, and its
\* response.
VARIABLES rooms, now, nreq, env, last

vars == <<rooms, now, nreq, env, last>>

U == 10 ^ 5

\* ---- GAME SETTINGS ----
TICK_RATE == 20
WORLD == 5200 * U
PLAYER_TTL == 12

\* Configuration constants of the code, scaled down so that a room is finite
\* enough to explore: 700 pellets, 32 viruses, maxPlayers clamped to 8..80,
\* bots clamped to 0..120 in the source.
PELLET_TARGET == 2
VIRUS_COUNT == 2
MAXPLAYERS_LO == 2
MAXPLAYERS_HI == 3
BOTS_HI == 2
\* The leaderboard of a snapshot: 10 entries in the source.
LEADERBOARD_SIZE == 2


\* ---- UTIL ----
Min(a, b) == IF a < b THEN a ELSE b
Max(a, b) == IF a > b THEN a ELSE b
Abs(a) == IF a < 0 THEN -a ELSE a

clamp(v, lo, hi) == Max(lo, Min(hi, v))

\* floor(v * f / U) for v >= 0 and a fraction 0 <= f <= 2 * U, exactly,
\* without forming v * f.
MulFracP(v, f) ==
  LET vh == v \div U
      vl == v % U
      fh == f \div 1000
      fl == f % 1000
      p  == vl * fh
  IN  vh * f + p \div 100 + ((p % 100) * 1000 + vl * fl) \div U

\* v * f for a signed v, rounded toward zero.
MulFrac(v, f) == IF v >= 0 THEN MulFracP(v, f) ELSE -MulFracP(-v, f)

\* v / n for a signed v, rounded toward zero.
DivT(v, n) == IF v >= 0 THEN v \div n ELSE -((-v) \div n)

RECURSIVE FracDigits(_, _, _)
FracDigits(rem, b, k) ==
  IF k = 0 THEN 0
  ELSE LET t == rem * 10
       IN  (t \div b) * (10 ^ (k - 1)) + FracDigits(t % b, b, k - 1)

\* The quotient a / b as a fraction (floor(a * U / b)), a >= 0, b > 0.  Above
\* b = 2000 * U both operands are cut to 1e-4 first, so that the long division
\* stays below 2^31.
FracDiv(a, b) ==
  LET s == IF b < 200000000 THEN 1 ELSE 10
  IN  ((a \div s) \div (b \div s)) * U + FracDigits((a \div s) % (b \div s), b \div s, 5)

RECURSIVE SqrtIn(_, _, _)
SqrtIn(n, lo, hi) ==
  IF lo >= hi THEN lo
  ELSE LET mid == (lo + hi + 1) \div 2
       IN  IF mid * mid <= n THEN SqrtIn(n, mid, hi) ELSE SqrtIn(n, lo, mid - 1)

\* floor(sqrt(n)), 0 <= n < 2^31.
ISqrt(n) == SqrtIn(n, 0, 46340)

\* Math.hypot(dx, dy) < R, the operands cut to multiples of q units.
HypotLess(dx, dy, R, q) ==
  /\ R > 0
  /\ Abs(dx) < R
  /\ Abs(dy) < R
  /\ LET ax == Abs(dx) \div q
         ay == Abs(dy) \div q
         rr == R \div q
     IN  ax * ax + ay * ay < rr * rr

\* Contact tests: 0.01 world units.
Near(dx, dy, R) == HypotLess(dx, dy, R, 1000)

RECURSIVE Rescale(_, _)
Rescale(x, y) ==
  LET m == Max(Abs(x), Abs(y))
  IN  IF m > 20000 THEN Rescale(DivT(x, 10), DivT(y, 10))
      ELSE IF m <= 2000 THEN Rescale(x * 10, y * 10)
      ELSE <<x, y>>

\* normalize(x, y): the unit vector along (x, y) as a pair of fractions, the
\* zero vector when the length is below 1e-6.  tiny is 1e-6 in the unit of
\* x and y, rounded up.
normalize(x, y, tiny) ==
  IF Abs(x) < tiny /\ Abs(y) < tiny /\ x * x + y * y < tiny * tiny
  THEN <<0, 0>>
  ELSE LET s == Rescale(x, y)
           L == ISqrt(s[1] * s[1] + s[2] * s[2])
       IN  <<DivT(s[1] * U, L), DivT(s[2] * U, L)>>

\* ---- identities ----
Codes == {"R1"}
BotId(i, code) == <<"bot", i, code>>
BOT_NAMES == <<"Nova">>

\* ---- draws ----
\* spawnAgent: um, ur choose a bot's start mass and radius, ux, uy the place.
FatBot  == [um |-> 99999, ur |-> 0,     ux |-> 0, uy |-> 0]
LeanBot == [um |-> 0,     ur |-> 99999, ux |-> 0, uy |-> 0]
WestSpawn == [um |-> 0, ur |-> 0, ux |-> 0, uy |-> 0]
FarSpawn == [um |-> 0, ur |-> 0, ux |-> 99999, uy |-> 99999]
FarBot == [um |-> 50000, ur |-> 50000, ux |-> 99999, uy |-> 99999]
\* pellets: place, radius, value
SpawnPellet == [ux |-> 5385, uy |-> 5385, ur |-> 0, uv |-> 50000]
MidPellet == [ux |-> 50000, uy |-> 50000, ur |-> 0, uv |-> 0]
CornerVirus == [ux |-> 0, uy |-> 0]
NearVirus == [ux |-> 1000, uy |-> 0]
MidVirus == [ux |-> 50000, uy |-> 50000]
TwoSpots == [k \in 1..VIRUS_COUNT |-> IF k % 2 = 1 THEN CornerVirus ELSE NearVirus]
MidSpots == [k \in 1..VIRUS_COUNT |-> MidVirus]

PIECES == 8

\* Math.random() of one pop: the direction (cos, sin) and the two speed draws
\* of each of the 8 fragments.
East == [dx |-> U, dy |-> 0, s1 |-> 0, s2 |-> 0]
North == [dx |-> 0, dy |-> U, s1 |-> 0, s2 |-> 50000]
AllEast == [k \in 1..PIECES |-> East]
EastNorth == [k \in 1..PIECES |-> IF k % 2 = 0 THEN East ELSE North]

\* ---- environments ----
P1 == <<"p", 1, "">>
P2 == <<"p", 2, "">>
Still == [ax |-> 0, ay |-> 0, boost |-> FALSE, split |-> FALSE]
SplitStill == [ax |-> 0, ay |-> 0, boost |-> FALSE, split |-> TRUE]
BoostStill == [ax |-> 0, ay |-> 0, boost |-> TRUE, split |-> FALSE]
SplitWest == [ax |-> -10000000, ay |-> 0, boost |-> FALSE, split |-> TRUE]
GoWest == [ax |-> -10000000, ay |-> 0, boost |-> FALSE, split |-> FALSE]
SplitEast == [ax |-> 10000000, ay |-> 0, boost |-> FALSE, split |-> TRUE]
SplitSouth == [ax |-> 0, ay |-> 10000000, boost |-> FALSE, split |-> TRUE]
GoEast == [ax |-> 10000000, ay |-> 0, boost |-> FALSE, split |-> FALSE]
BoostEast == [ax |-> 10000000, ay |-> 0, boost |-> TRUE, split |-> FALSE]

ArenaTicks == 3
ArenaReq == 2
ArenaNow == 13

\* Bots, one human, pellets and viruses around one spawn point.
ArenaEnv ==
  [ maxPlayers |-> {0}, bots |-> {2},
    botDraws |-> {LeanBot, FatBot}, humanDraws |-> {WestSpawn},
    pelletDraws |-> {SpawnPellet}, virusSeqs |-> {TwoSpots},
    forageDraws |-> {0}, chaseDraws |-> {FALSE}, fragSeqs |-> {AllEast, EastNorth},
    reqCodes |-> {"R1"}, joinIds |-> {P1}, inputIds |-> {P1, BotId(0, "R1")},
    requests |-> {SplitStill},
    elapse |-> {13},
    maxTicks |-> ArenaTicks, maxReq |-> ArenaReq, maxNow |-> ArenaNow ]

DuelTicks == 3
DuelReq == 2
DuelNow == 13

\* One bot and one human on the same spawn point: either can eat the other.
DuelEnv ==
  [ maxPlayers |-> {0}, bots |-> {1},
    botDraws |-> {LeanBot, FatBot}, humanDraws |-> {WestSpawn},
    pelletDraws |-> {SpawnPellet}, virusSeqs |-> {MidSpots},
    forageDraws |-> {0}, chaseDraws |-> {FALSE, TRUE}, fragSeqs |-> {AllEast},
    reqCodes |-> {"R1", "ZZ"}, joinIds |-> {P1}, inputIds |-> {P1, BotId(0, "R1")},
    requests |-> {SplitStill, GoWest},
    elapse |-> {13},
    maxTicks |-> DuelTicks, maxReq |-> DuelReq, maxNow |-> DuelNow ]

LobbyTicks == 2
LobbyReq == 3
LobbyNow == 13

\* Humans joining, idling and timing out next to one bot that can eat them
\* or be eaten.
LobbyEnv ==
  [ maxPlayers |-> {0, MAXPLAYERS_HI + 1}, bots |-> {1},
    botDraws |-> {LeanBot, FatBot}, humanDraws |-> {WestSpawn},
    pelletDraws |-> {MidPellet}, virusSeqs |-> {MidSpots},
    forageDraws |-> {0}, chaseDraws |-> {FALSE}, fragSeqs |-> {AllEast},
    reqCodes |-> {"R1", "ZZ"}, joinIds |-> {P1, P2, BotId(0, "R1")},
    inputIds |-> {P1}, requests |-> {Still},
    elapse |-> {12, 13},
    maxTicks |-> LobbyTicks, maxReq |-> LobbyReq, maxNow |-> LobbyNow ]

WallTicks == 10
WallReq == 2
WallNow == 13

\* One human walking and splitting toward a wall of the world.
WallEnv ==
  [ maxPlayers |-> {0}, bots |-> {0},
    botDraws |-> {FatBot}, humanDraws |-> {WestSpawn, FarSpawn},
    pelletDraws |-> {MidPellet}, virusSeqs |-> {MidSpots},
    forageDraws |-> {0}, chaseDraws |-> {FALSE}, fragSeqs |-> {AllEast},
    reqCodes |-> {"R1"}, joinIds |-> {P1},
    inputIds |-> {P1},
    requests |-> {GoWest, SplitWest, BoostStill, SplitEast, SplitSouth},
    elapse |-> {13},
    maxTicks |-> WallTicks, maxReq |-> WallReq, maxNow |-> WallNow ]

FeastTicks == 1
FeastReq == 1
FeastNow == 13

\* Two grown agents on one spot in the middle of a game, a pellet under them
\* and the viruses far away.
FeastPellet == [ux |-> 19231, uy |-> 19231, ur |-> 0, uv |-> 0]
FeastEnv ==
  [ maxPlayers |-> {0}, bots |-> {1},
    botDraws |-> {LeanBot, FatBot}, humanDraws |-> {WestSpawn},
    pelletDraws |-> {FeastPellet}, virusSeqs |-> {MidSpots},
    forageDraws |-> {0}, chaseDraws |-> {FALSE, TRUE}, fragSeqs |-> {AllEast},
    reqCodes |-> {"R1"}, joinIds |-> {P1}, inputIds |-> {P1, P2},
    requests |-> {GoWest, BoostStill},
    elapse |-> {13},
    maxTicks |-> FeastTicks, maxReq |-> FeastReq, maxNow |-> FeastNow ]

RunTicks == 26
RunReq == 2
RunNow == 13

\* One human alone near the east wall, heading east until the wall stops it.
RunEnv ==
  [ maxPlayers |-> {0}, bots |-> {0},
    botDraws |-> {FatBot}, humanDraws |-> {FarSpawn},
    pelletDraws |-> {MidPellet}, virusSeqs |-> {MidSpots},
    forageDraws |-> {0}, chaseDraws |-> {FALSE}, fragSeqs |-> {AllEast},
    reqCodes |-> {"R1"}, joinIds |-> {P1}, inputIds |-> {P1},
    requests |-> {GoEast, BoostEast},
    elapse |-> {13},
    maxTicks |-> RunTicks, maxReq |-> RunReq, maxNow |-> RunNow ]

SetupTicks == 1
SetupReq == 1
SetupNow == 13

\* Rooms asked for with sizes below, inside and above the ranges of makeRoom,
\* their bots spawning at either end of the spawn range.
SetupEnv ==
  [ maxPlayers |-> {MAXPLAYERS_LO - 1, MAXPLAYERS_LO, MAXPLAYERS_HI, MAXPLAYERS_HI + 1},
    bots |-> {-1, 0, BOTS_HI, BOTS_HI + 1},
    botDraws |-> {LeanBot, FarBot}, humanDraws |-> {WestSpawn},
    pelletDraws |-> {MidPellet}, virusSeqs |-> {MidSpots},
    forageDraws |-> {0}, chaseDraws |-> {FALSE}, fragSeqs |-> {AllEast},
    reqCodes |-> {"R1"}, joinIds |-> {P1}, inputIds |-> {P1},
    requests |-> {Still},
    elapse |-> {13},
    maxTicks |-> SetupTicks, maxReq |-> SetupReq, maxNow |-> SetupNow ]

HuntTicks == 1
HuntReq == 1
HuntNow == 13

\* Bots of three sizes and humans within sight of each other, a pellet next to
\* them and one far away.
HuntEnv ==
  [ maxPlayers |-> {0}, bots |-> {2},
    botDraws |-> {LeanBot, FatBot}, humanDraws |-> {WestSpawn},
    pelletDraws |-> {FeastPellet, MidPellet}, virusSeqs |-> {MidSpots},
    forageDraws |-> {0, 50000}, chaseDraws |-> {FALSE, TRUE}, fragSeqs |-> {AllEast},
    reqCodes |-> {"R1"}, joinIds |-> {P1}, inputIds |-> {P1},
    requests |-> {GoWest},
    elapse |-> {13},
    maxTicks |-> HuntTicks, maxReq |-> HuntReq, maxNow |-> HuntNow ]

DivideTicks == 1
DivideReq == 17
DivideNow == 13

\* One human that is asked to split, toward the east, again and again.
DivideEnv ==
  [ maxPlayers |-> {0}, bots |-> {0},
    botDraws |-> {FatBot}, humanDraws |-> {WestSpawn},
    pelletDraws |-> {MidPellet}, virusSeqs |-> {MidSpots},
    forageDraws |-> {0}, chaseDraws |-> {FALSE}, fragSeqs |-> {AllEast},
    reqCodes |-> {"R1"}, joinIds |-> {P1}, inputIds |-> {P1},
    requests |-> {SplitEast},
    elapse |-> {13},
    maxTicks |-> DivideTicks, maxReq |-> DivideReq, maxNow |-> DivideNow ]

\* The environment of the run.
E == CASE env = "arena" -> ArenaEnv
       [] env = "duel" -> DuelEnv
       [] env = "lobby" -> LobbyEnv
       [] env = "wall" -> WallEnv
       [] env = "feast" -> FeastEnv
       [] env = "run" -> RunEnv
       [] env = "setup" -> SetupEnv
       [] env = "hunt" -> HuntEnv
       [] env = "divide" -> DivideEnv

\* ---- GAME CORE ----
spawnAgent(id, name, isBot, d, clock) ==
  [ id |-> id, name |-> name, isBot |-> isBot,
    dead |-> FALSE,
    aimX |-> 0, aimY |-> 0,
    boost |-> FALSE,
    lastSeen |-> clock,
    blobs |-> << [ x |-> 280 * U + d.ux * (WORLD \div U - 560),
                   y |-> 280 * U + d.uy * (WORLD \div U - 560),
                   vx |-> 0, vy |-> 0,
                   mass |-> IF isBot THEN 32 * U + d.um * 70 ELSE 55 * U,
                   r |-> IF isBot THEN 22 * U + d.ur * 20 ELSE 36 * U,
                   splitTimer |-> 999 * TICK_RATE ] >> ]

RECURSIVE SumMass(_)
SumMass(bs) == IF bs = <<>> THEN 0 ELSE Head(bs).mass + SumMass(Tail(bs))

agentMass(a) == SumMass(a.blobs)

canEat(er, pr) == er > MulFrac(pr, 112000)

canEngulf(ex, ey, er, px, py, pr) ==
  Near(ex - px, ey - py, er - MulFrac(pr, 65000))

baseSpeed(r, totalMass, boosting) ==
  LET sizePenalty == Max(26000, U - r \div 215)
      softCap == 1400 * U
      capPenalty == IF totalMass > softCap
                    THEN clamp(U - MulFrac((totalMass - softCap) \div 1400, 55000),
                               55000, U)
                    ELSE U
      v == MulFrac(260 * sizePenalty, capPenalty)
  IN  IF boosting THEN MulFrac(v, 155000) ELSE v

\* A grow that knows no soft cap.
growUncapped(b, amount) ==
  [b EXCEPT !.mass = @ + amount, !.r = @ + MulFrac(amount, 22000)]

grow(b, amount) ==
  LET softCap == 1400 * U
      penalty == IF b.mass > softCap
                 THEN clamp(FracDiv(softCap, b.mass), 25000, U)
                 ELSE U
      gain == MulFrac(amount, penalty)
  IN  [b EXCEPT !.mass = @ + gain, !.r = @ + MulFrac(gain, 22000)]

makePellet(d) ==
  [ x |-> d.ux * (WORLD \div U), y |-> d.uy * (WORLD \div U),
    r |-> 4 * U + d.ur * 5,
    v |-> 1 + (d.uv * 2) \div U ]

makeVirus(d) ==
  [ x |-> 240 * U + d.ux * (WORLD \div U - 480),
    y |-> 240 * U + d.uy * (WORLD \div U - 480),
    r |-> 36 * U ]

\* The name loop of makeRoom: the first unused candidate of BOT_NAMES the
\* draws hit, "Bot100" when every candidate is used.
botName(i) == IF i < Len(BOT_NAMES) THEN BOT_NAMES[i + 1] ELSE "Bot100"

\* A makeRoom that takes maxPlayers as asked.
makeRoomAnySize(code, maxPlayers, bots, pd, vd, bd, clock) ==
  [ code |-> code,
    maxPlayers |-> maxPlayers,
    bots |-> clamp(bots, 0, BOTS_HI),
    t |-> 0,
    agents |-> [i \in 1..clamp(bots, 0, BOTS_HI) |->
                  spawnAgent(BotId(i - 1, code), botName(i - 1), TRUE, bd[i], clock)],
    pellets |-> [i \in 1..PELLET_TARGET |-> makePellet(pd[i])],
    viruses |-> [i \in 1..VIRUS_COUNT |-> makeVirus(vd[i])] ]

makeRoom(code, maxPlayers, bots, pd, vd, bd, clock) ==
  [ code |-> code,
    maxPlayers |-> clamp(maxPlayers, MAXPLAYERS_LO, MAXPLAYERS_HI),
    bots |-> clamp(bots, 0, BOTS_HI),
    t |-> 0,
    agents |-> [i \in 1..clamp(bots, 0, BOTS_HI) |->
                  spawnAgent(BotId(i - 1, code), botName(i - 1), TRUE, bd[i], clock)],
    pellets |-> [i \in 1..PELLET_TARGET |-> makePellet(pd[i])],
    viruses |-> [i \in 1..VIRUS_COUNT |-> makeVirus(vd[i])] ]

\* An agent later in its life: one blob that has grown to mass and r and has
\* moved to (x, y).
grownAgent(id, name, isBot, mass, r, x, y, clock) ==
  [spawnAgent(id, name, isBot, WestSpawn, clock) EXCEPT
     !.blobs = << [ x |-> x, y |-> y, vx |-> 0, vy |-> 0,
                    mass |-> mass, r |-> r, splitTimer |-> 0 ] >>]

\* The rooms of the feast: a big blob (radius 100, or radius 330 with a mass
\* above the soft cap of 1400) and a blob of radius 50 of two agents on one
\* spot, in either order in room.agents, each a bot or a human, in the open or
\* in the corner of the world.  The masses are masses a blob of that radius can
\* have: a blob gains 0.22 of radius per unit of mass and a split halves it.
FeastRooms ==
  { [ makeRoom("R1", MAXPLAYERS_HI, 0,
               [i \in 1..PELLET_TARGET |-> FeastPellet], MidSpots, <<>>, 0)
      EXCEPT !.bots = (IF botA THEN 1 ELSE 0) + (IF botB THEN 1 ELSE 0),
             !.agents =
               LET A == grownAgent(IF botA THEN BotId(0, "R1") ELSE P1, "Ann", botA,
                                   big[1] * U, big[2] * U, at * U, at * U, 0)
                   B == grownAgent(IF botB THEN BotId(1, "R1") ELSE P2, "Bob", botB,
                                   massB * U, 50 * U, at * U, at * U, 0)
               IN  IF aFirst THEN <<A, B>> ELSE <<B, A>> ]
    : botA \in BOOLEAN, botB \in BOOLEAN, aFirst \in BOOLEAN,
      big \in {<<240, 100>>, <<450, 100>>, <<1500, 330>>}, massB \in {50, 220},
      at \in {100, 1000} }

\* The rooms of the hunt: a bot of radius 40 at (1000, 1000), first or last in
\* room.agents, and any of a human of radius 60 to its east, a human of radius
\* 50 to its south or south-east and a bot of radius 25 to its west, each in
\* sight of it or out of sight.
HuntRooms ==
  { [ makeRoom("R1", MAXPLAYERS_HI, 0,
               <<FeastPellet>> \o [i \in 1..(PELLET_TARGET - 1) |-> MidPellet],
               MidSpots, <<>>, 0)
      EXCEPT !.bots = IF "small" \in who THEN 2 ELSE 1,
             !.agents =
               LET mid == << grownAgent(BotId(0, "R1"), "Nova", TRUE, 100 * U, 40 * U,
                                         1000 * U, 1000 * U, 0) >>
                   big1 == IF "big1" \in who
                           THEN << grownAgent(P1, "Ann", FALSE, 164 * U, 60 * U,
                                              (1000 + east) * U, 1000 * U, 0) >>
                           ELSE <<>>
                   big2 == IF "big2" \in who
                           THEN << grownAgent(P2, "Bob", FALSE, 119 * U, 50 * U,
                                              (1000 + south[1]) * U, (1000 + south[2]) * U, 0) >>
                           ELSE <<>>
                   small == IF "small" \in who
                            THEN << grownAgent(BotId(1, "R1"), "Bot100", TRUE, 40 * U, 25 * U,
                                               (1000 - west) * U, 1000 * U, 0) >>
                            ELSE <<>>
               IN  IF midFirst THEN mid \o big1 \o big2 \o small
                   ELSE big1 \o big2 \o small \o mid ]
    : who \in SUBSET {"big1", "big2", "small"}, midFirst \in BOOLEAN,
      east \in {200, 950}, south \in {<<0, 150>>, <<0, 200>>, <<700, 700>>},
      west \in {100, 950} }

\* The rooms of the division: one human at (1000, 1000) that has grown to one
\* blob of radius 100, or to two blobs of radius 60 and 100, or that has one
\* blob left that is too small to split.
DivideRooms ==
  { [ makeRoom("R1", MAXPLAYERS_HI, 0,
               [i \in 1..PELLET_TARGET |-> MidPellet], MidSpots, <<>>, 0)
      EXCEPT !.agents =
               << [ grownAgent(P1, "Ann", FALSE, 0, 0, 0, 0, 0) EXCEPT
                      !.blobs = [k \in DOMAIN sizes |->
                                   [ x |-> 1000 * U, y |-> (1000 + 300 * k) * U,
                                     vx |-> 0, vy |-> 0,
                                     mass |-> sizes[k][1] * U, r |-> sizes[k][2] * U,
                                     splitTimer |-> 0 ]] ] >> ]
    : sizes \in { << <<346, 100>> >>, << <<164, 60>>, <<346, 100>> >>, << <<50, 30>> >> } }

\* ---- rooms ----
\* room.agents is a Map: a sequence in insertion order, keyed by the id field
\* the agent was stored under (spawnAgent stores the key as a.id).
RECURSIVE IndexOf(_, _)
IndexOf(agents, id) ==
  IF agents = <<>> THEN 0
  ELSE IF agents[Len(agents)].id = id THEN Len(agents)
  ELSE IndexOf(SubSeq(agents, 1, Len(agents) - 1), id)

\* Map.set: an existing key keeps its place, a new key goes last.
MapSet(agents, a) ==
  LET i == IndexOf(agents, a.id)
  IN  IF i = 0 THEN Append(agents, a) ELSE [agents EXCEPT ![i] = a]

Humans(room) == {i \in DOMAIN room.agents : ~room.agents[i].isBot}
Bots(room) == {i \in DOMAIN room.agents : room.agents[i].isBot}

NoRooms == [c \in {} |-> 0]
NoId == <<"", 0, "">>
Op(op, code, id, split, ok, error) ==
  [op |-> op, code |-> code, id |-> id, split |-> split, ok |-> ok, error |-> error]

\* ---- API ----
\* POST /create
CreateRoom(code, maxPlayers, bots) ==
  /\ code \notin DOMAIN rooms
  /\ \E pd \in [1..PELLET_TARGET -> E.pelletDraws],
        vd \in E.virusSeqs,
        bd \in [1..clamp(bots, 0, BOTS_HI) -> E.botDraws] :
       rooms' = [c \in DOMAIN rooms \cup {code} |->
                   IF c = code THEN makeRoom(code, maxPlayers, bots, pd, vd, bd, now)
                   ELSE rooms[c]]
  /\ last' = Op("create", code, NoId, FALSE, TRUE, "")
  /\ UNCHANGED <<now, nreq, env>>

\* POST /join
joinRoom(room, name, id, d, clock) ==
  [room EXCEPT !.agents = MapSet(@, spawnAgent(id, name, FALSE, d, clock))]

\* A capacity test that lets one human too many in.
joinReplyLax(code) ==
  IF code \notin DOMAIN rooms THEN [ok |-> FALSE, error |-> "Room not found"]
  ELSE IF Cardinality(Humans(rooms[code])) > rooms[code].maxPlayers
  THEN [ok |-> FALSE, error |-> "Room full"]
  ELSE [ok |-> TRUE, error |-> ""]

\* The response of POST /join.
joinReply(code) ==
  IF code \notin DOMAIN rooms THEN [ok |-> FALSE, error |-> "Room not found"]
  ELSE IF Cardinality(Humans(rooms[code])) >= rooms[code].maxPlayers
  THEN [ok |-> FALSE, error |-> "Room full"]
  ELSE [ok |-> TRUE, error |-> ""]

Join(code, name, id) ==
  /\ IF joinReply(code).ok
     THEN /\ nreq < E.maxReq
          /\ \E d \in E.humanDraws :
               rooms' = [rooms EXCEPT ![code] = joinRoom(@, name, id, d, now)]
          /\ nreq' = nreq + 1
     ELSE UNCHANGED <<rooms, nreq>>
  /\ last' = Op("join", code, id, FALSE, joinReply(code).ok, joinReply(code).error)
  /\ UNCHANGED <<now, env>>

\* 14 * 2.2
SPLIT_MIN_R == 3080000

\* The index of the largest-radius blob, the first one among equals.
RECURSIVE BestFrom(_, _, _)
BestFrom(blobs, best, i) ==
  IF i > Len(blobs) THEN best
  ELSE BestFrom(blobs, IF blobs[i].r > blobs[best].r THEN i ELSE best, i + 1)

\* A split that tests the radius floor 14 instead of 14 * 2.2.
splitAgentAnySize(a) ==
  IF a.blobs = <<>> THEN a
  ELSE
    LET best == BestFrom(a.blobs, 1, 2)
        b == a.blobs[best]
    IN  IF b.r >= 14 * U
        THEN LET dir == normalize(a.aimX, a.aimY, 1)
                 nr == Max(14 * U, MulFrac(b.r, 72000))
                 sib == [ x |-> b.x + MulFrac(nr + 8 * U, dir[1]),
                          y |-> b.y + MulFrac(nr + 8 * U, dir[2]),
                          vx |-> 580 * dir[1],
                          vy |-> 580 * dir[2],
                          mass |-> MulFrac(b.mass, 50000),
                          r |-> Max(14 * U, nr),
                          splitTimer |-> 0 ]
                 b2 == [b EXCEPT !.mass = MulFrac(b.mass, 50000), !.r = nr,
                                 !.splitTimer = 0]
             IN  [a EXCEPT !.blobs = Append([@ EXCEPT ![best] = b2], sib)]
        ELSE a

\* A split that halves the mass and leaves the radius as it is.
splitAgentSameRadius(a) ==
  IF a.blobs = <<>> THEN a
  ELSE
    LET best == BestFrom(a.blobs, 1, 2)
        b == a.blobs[best]
    IN  IF b.r >= SPLIT_MIN_R
        THEN LET dir == normalize(a.aimX, a.aimY, 1)
                 newMass == MulFrac(b.mass, 50000)
                 nr == b.r
                 sib == [ x |-> b.x + MulFrac(nr + 8 * U, dir[1]),
                          y |-> b.y + MulFrac(nr + 8 * U, dir[2]),
                          vx |-> 580 * dir[1],
                          vy |-> 580 * dir[2],
                          mass |-> newMass,
                          r |-> Max(14 * U, nr),
                          splitTimer |-> 0 ]
                 b2 == [b EXCEPT !.mass = MulFrac(b.mass, 50000), !.r = nr,
                                 !.splitTimer = 0]
             IN  [a EXCEPT !.blobs = Append([@ EXCEPT ![best] = b2], sib)]
        ELSE a

\* A split whose sibling is a copy of the whole blob: the mass is halved
\* after the sibling is made.
splitAgentCopies(a) ==
  IF a.blobs = <<>> THEN a
  ELSE
    LET best == BestFrom(a.blobs, 1, 2)
        b == a.blobs[best]
    IN  IF b.r >= SPLIT_MIN_R
        THEN LET dir == normalize(a.aimX, a.aimY, 1)
                 nr == Max(14 * U, MulFrac(b.r, 72000))
                 sib == [ x |-> b.x + MulFrac(nr + 8 * U, dir[1]),
                          y |-> b.y + MulFrac(nr + 8 * U, dir[2]),
                          vx |-> 580 * dir[1],
                          vy |-> 580 * dir[2],
                          mass |-> b.mass,
                          r |-> Max(14 * U, nr),
                          splitTimer |-> 0 ]
                 b2 == [b EXCEPT !.mass = MulFrac(b.mass, 50000), !.r = nr,
                                 !.splitTimer = 0]
             IN  [a EXCEPT !.blobs = Append([@ EXCEPT ![best] = b2], sib)]
        ELSE a

\* The split branch of POST /input, on an agent whose aim is already set.
splitAgent(a) ==
  IF a.blobs = <<>> THEN a
  ELSE
    LET best == BestFrom(a.blobs, 1, 2)
        b == a.blobs[best]
    IN  IF b.r >= SPLIT_MIN_R
        THEN LET dir == normalize(a.aimX, a.aimY, 1)
                 newMass == MulFrac(b.mass, 50000)
                 nr == Max(14 * U, MulFrac(b.r, 72000))
                 sib == [ x |-> b.x + MulFrac(nr + 8 * U, dir[1]),
                          y |-> b.y + MulFrac(nr + 8 * U, dir[2]),
                          vx |-> 580 * dir[1],
                          vy |-> 580 * dir[2],
                          mass |-> newMass,
                          r |-> Max(14 * U, nr),
                          splitTimer |-> 0 ]
                 b2 == [b EXCEPT !.mass = MulFrac(b.mass, 50000), !.r = nr,
                                 !.splitTimer = 0]
             IN  [a EXCEPT !.blobs = Append([@ EXCEPT ![best] = b2], sib)]
        ELSE a

\* The body of POST /input once the room and a living agent are found.
applyInput(a, ax, ay, boost, split, clock) ==
  LET n == normalize(ax, ay, 10)
      a1 == [a EXCEPT !.lastSeen = clock, !.aimX = n[1], !.aimY = n[2],
                      !.boost = boost]
  IN  IF split THEN splitAgent(a1) ELSE a1

\* A lookup that forgets the dead flag.
inputReplyAnyAgent(code, id) ==
  IF code \notin DOMAIN rooms THEN FALSE
  ELSE IndexOf(rooms[code].agents, id) # 0

\* The response of POST /input: ok.
inputReply(code, id) ==
  IF code \notin DOMAIN rooms THEN FALSE
  ELSE LET i == IndexOf(rooms[code].agents, id)
       IN  ~(i = 0 \/ rooms[code].agents[i].dead)

\* Aim vectors of a request are in units of 1e-7.
Input(code, id, ax, ay, boost, split) ==
  /\ IF inputReply(code, id)
     THEN /\ nreq < E.maxReq
          /\ rooms' = [rooms EXCEPT
                         ![code].agents[IndexOf(rooms[code].agents, id)] =
                           applyInput(@, ax, ay, boost, split, now)]
          /\ nreq' = nreq + 1
     ELSE UNCHANGED <<rooms, nreq>>
  /\ last' = Op("input", code, id, split, inputReply(code, id), "")
  /\ UNCHANGED <<now, env>>

\* GET /state
\* Math.floor(agentMass(a)), in whole units of mass.
floorMass(a) == agentMass(a) \div U

RECURSIVE insertDesc(_, _)
\* e put into a list sorted by mass descending, behind its equals.
insertDesc(sorted, e) ==
  IF sorted = <<>> THEN <<e>>
  ELSE IF Head(sorted).mass >= e.mass THEN <<Head(sorted)>> \o insertDesc(Tail(sorted), e)
  ELSE <<e>> \o sorted

RECURSIVE sortDesc(_)
\* Array.prototype.sort((a, b) => b.mass - a.mass): stable, mass descending.
sortDesc(es) ==
  IF es = <<>> THEN <<>>
  ELSE insertDesc(sortDesc(SubSeq(es, 1, Len(es) - 1)), es[Len(es)])

\* A leaderboard built without the filter on a.dead.
leaderboardOfAll(room) ==
  LET entries == [i \in DOMAIN room.agents |->
                    [id |-> room.agents[i].id, name |-> room.agents[i].name,
                     mass |-> floorMass(room.agents[i])]]
      sorted == sortDesc(entries)
  IN  SubSeq(sorted, 1, Min(LEADERBOARD_SIZE, Len(sorted)))

leaderboard(room) ==
  LET alive == SelectSeq(room.agents, LAMBDA a : ~a.dead)
      entries == [i \in DOMAIN alive |->
                    [id |-> alive[i].id, name |-> alive[i].name, mass |-> floorMass(alive[i])]]
      sorted == sortDesc(entries)
  IN  SubSeq(sorted, 1, Min(LEADERBOARD_SIZE, Len(sorted)))

\* The body of the response of GET /state for a room that exists.
getSnapshot(room) ==
  LET alive == SelectSeq(room.agents, LAMBDA a : ~a.dead)
  IN  [ t |-> room.t,
        world |-> WORLD,
        pellets |-> room.pellets,
        viruses |-> room.viruses,
        players |-> [i \in DOMAIN alive |->
                       [ id |-> alive[i].id, name |-> alive[i].name,
                         blobs |-> [k \in DOMAIN alive[i].blobs |->
                                      [ x |-> alive[i].blobs[k].x,
                                        y |-> alive[i].blobs[k].y,
                                        r |-> alive[i].blobs[k].r ]],
                         mass |-> floorMass(alive[i]) ]],
        leaderboard |-> leaderboard(room) ]

\* The handler reads the room and writes nothing.
State(code) ==
  /\ last' = IF code \in DOMAIN rooms
             THEN Op("state", code, NoId, FALSE, TRUE, "")
             ELSE Op("state", code, NoId, FALSE, FALSE, "Room not found")
  /\ UNCHANGED <<rooms, now, nreq, env>>

\* The wall clock moves on by d seconds.
Elapse(d) ==
  /\ now + d <= E.maxNow
  /\ now' = now + d
  /\ last' = Op("elapse", "", NoId, FALSE, TRUE, "")
  /\ UNCHANGED <<rooms, nreq, env>>

\* ---- tickRoom ----
\* v * f for a signed v and a signed fraction f.
Mul(v, f) == IF f >= 0 THEN MulFrac(v, f) ELSE -MulFrac(v, -f)

Remove(s, i) == SubSeq(s, 1, i - 1) \o SubSeq(s, i + 1, Len(s))

\* A timeout that forgets the isBot test.
StaleAnyone(a, clock) == (clock - a.lastSeen) > PLAYER_TTL

\* remove inactive humans.  The clock is Date.now() / 1000 less a fixed epoch,
\* so lastSeen is never falsy in the code and (a.lastSeen || now) is a.lastSeen.
Stale(a, clock) == ~a.isBot /\ (clock - a.lastSeen) > PLAYER_TTL

RECURSIVE keepActive(_, _)
keepActive(s, clock) ==
  IF s = <<>> THEN <<>>
  ELSE IF Stale(Head(s), clock) THEN keepActive(Tail(s), clock)
  ELSE <<Head(s)>> \o keepActive(Tail(s), clock)

removeInactive(room, clock) == [room EXCEPT !.agents = keepActive(@, clock)]

\* bot AI
RECURSIVE OtherBlobs(_, _, _)
\* The blobs of the living agents other than agent i, in scan order.
OtherBlobs(agents, i, j) ==
  IF j > Len(agents) THEN <<>>
  ELSE (IF agents[j].id = agents[i].id \/ agents[j].dead THEN <<>> ELSE agents[j].blobs)
       \o OtherBlobs(agents, i, j + 1)

PERCEPTION == 900
Seen(b, ob) == HypotLess(b.x - ob.x, b.y - ob.y, PERCEPTION * U, 10000)
Dist2(b, ob) ==
  LET ax == Abs(b.x - ob.x) \div 10000
      ay == Abs(b.y - ob.y) \div 10000
  IN  ax * ax + ay * ay

IsThreat(b, ob) == Seen(b, ob) /\ ob.r > MulFrac(b.r, 110000)
IsPrey(b, ob) == Seen(b, ob) /\ b.r > MulFrac(ob.r, 120000)

RECURSIVE Nearest(_, _, _, _, _)
\* The index in obs of the first nearest blob of the given kind, 0 if none.
Nearest(b, obs, threat, k, best) ==
  IF k > Len(obs) THEN best
  ELSE LET ok == IF threat THEN IsThreat(b, obs[k]) ELSE IsPrey(b, obs[k])
       IN  Nearest(b, obs, threat, k + 1,
                   IF ok /\ (best = 0 \/ Dist2(b, obs[k]) < Dist2(b, obs[best]))
                   THEN k ELSE best)

BotActs(a) == ~a.dead /\ a.isBot /\ a.blobs # <<>>

botMode(agents, i) ==
  LET obs == OtherBlobs(agents, i, 1)
      b == agents[i].blobs[1]
  IN  IF Nearest(b, obs, TRUE, 1, 0) # 0 THEN "flee"
      ELSE IF Nearest(b, obs, FALSE, 1, 0) # 0 THEN "chase"
      ELSE "forage"

Foragers(room) ==
  {i \in DOMAIN room.agents :
     BotActs(room.agents[i]) /\ botMode(room.agents, i) = "forage"}
Chasers(room) ==
  {i \in DOMAIN room.agents :
     BotActs(room.agents[i]) /\ botMode(room.agents, i) = "chase"}

\* A bot that looks for prey before it looks for threats.
botDecidePreyFirst(room, i, fu, cb) ==
  LET a == room.agents[i]
      b == a.blobs[1]
      obs == OtherBlobs(room.agents, i, 1)
      t == Nearest(b, obs, TRUE, 1, 0)
      p == Nearest(b, obs, FALSE, 1, 0)
      pi == (fu * Len(room.pellets)) \div U + 1
      aim == IF p # 0 THEN <<obs[p].x - b.x, obs[p].y - b.y>>
             ELSE IF t # 0 THEN <<b.x - obs[t].x, b.y - obs[t].y>>
             ELSE IF room.pellets # <<>>
                  THEN <<room.pellets[pi].x - b.x, room.pellets[pi].y - b.y>>
                  ELSE <<0, 0>>
      n == normalize(aim[1], aim[2], 1)
  IN  [a EXCEPT !.aimX = n[1], !.aimY = n[2],
                !.boost = IF p # 0 THEN cb ELSE FALSE]

botDecide(room, i, fu, cb) ==
  LET a == room.agents[i]
      b == a.blobs[1]
      obs == OtherBlobs(room.agents, i, 1)
      t == Nearest(b, obs, TRUE, 1, 0)
      p == Nearest(b, obs, FALSE, 1, 0)
      pi == (fu * Len(room.pellets)) \div U + 1
      aim == IF t # 0 THEN <<b.x - obs[t].x, b.y - obs[t].y>>
             ELSE IF p # 0 THEN <<obs[p].x - b.x, obs[p].y - b.y>>
             ELSE IF room.pellets # <<>>
                  THEN <<room.pellets[pi].x - b.x, room.pellets[pi].y - b.y>>
                  ELSE <<0, 0>>
      n == normalize(aim[1], aim[2], 1)
  IN  [a EXCEPT !.aimX = n[1], !.aimY = n[2],
                !.boost = IF t # 0 THEN FALSE ELSE IF p # 0 THEN cb ELSE FALSE]

botAI(room, fd, cd) ==
  [room EXCEPT !.agents =
     [i \in DOMAIN room.agents |->
        IF BotActs(room.agents[i])
        THEN botDecide(room, i,
                       IF i \in DOMAIN fd THEN fd[i] ELSE 0,
                       IF i \in DOMAIN cd THEN cd[i] ELSE FALSE)
        ELSE room.agents[i]]]

\* movement + decay
stepPos(a, b, total) ==
  LET v == baseSpeed(b.r, total, a.boost)
  IN  <<b.x + DivT(Mul(v, a.aimX), TICK_RATE), b.y + DivT(Mul(v, a.aimY), TICK_RATE)>>

\* A clamp of the centre to the world, the radius forgotten.
clampPosCentre(p, r) == <<clamp(p[1], 0, WORLD), clamp(p[2], 0, WORLD)>>

clampPos(p, r) == <<clamp(p[1], r, WORLD - r), clamp(p[2], r, WORLD - r)>>

MIN_MASS == 10
MIN_R == 14

decayBlob(a, b, total) ==
  LET decay == IF a.isBot THEN 800 ELSE 1100
      m1 == Max(MIN_MASS * U, b.mass - decay)
      r1 == Max(MIN_R * U, b.r - MulFrac(decay, 8000))
  IN  IF ~a.isBot /\ a.boost
      THEN LET d == MulFrac(8750, FracDiv(m1, Max(U, total)))
           IN  [b EXCEPT !.mass = Max(MIN_MASS * U, m1 - d),
                         !.r = Max(MIN_R * U, r1 - MulFrac(d, 12000))]
      ELSE [b EXCEPT !.mass = m1, !.r = r1]

moveBlob(a, b, total) ==
  LET c == clampPos(stepPos(a, b, total), b.r)
      b1 == [b EXCEPT !.x = c[1] + DivT(b.vx, TICK_RATE),
                      !.y = c[2] + DivT(b.vy, TICK_RATE),
                      !.vx = MulFrac(@, 81000),
                      !.vy = MulFrac(@, 81000),
                      !.splitTimer = @ + 1]
  IN  decayBlob(a, b1, total)

movement(room) ==
  [room EXCEPT !.agents =
     [i \in DOMAIN room.agents |->
        LET a == room.agents[i]
        IN  IF a.dead THEN a
            ELSE [a EXCEPT !.blobs =
                    [k \in DOMAIN a.blobs |-> moveBlob(a, a.blobs[k], agentMass(a))]]]]

\* eat pellets
RECURSIVE eatLoop(_, _, _)
eatLoop(b, pellets, i) ==
  IF i = 0 THEN <<b, pellets>>
  ELSE LET p == pellets[i]
       IN  IF Near(b.x - p.x, b.y - p.y, b.r + p.r)
           THEN eatLoop(grow(b, p.v * U), Remove(pellets, i), i - 1)
           ELSE eatLoop(b, pellets, i - 1)

RECURSIVE eatBlobs(_, _, _)
\* The blobs from index k on eat in turn: <<blobs, pellets>>.
eatBlobs(blobs, pellets, k) ==
  IF k > Len(blobs) THEN <<blobs, pellets>>
  ELSE LET e == eatLoop(blobs[k], pellets, Len(pellets))
       IN  eatBlobs([blobs EXCEPT ![k] = e[1]], e[2], k + 1)

RECURSIVE eatAgents(_, _, _)
eatAgents(agents, pellets, i) ==
  IF i > Len(agents) THEN <<agents, pellets>>
  ELSE IF agents[i].dead THEN eatAgents(agents, pellets, i + 1)
  ELSE LET e == eatBlobs(agents[i].blobs, pellets, 1)
       IN  eatAgents([agents EXCEPT ![i].blobs = e[1]], e[2], i + 1)

eatPellets(room) ==
  LET e == eatAgents(room.agents, room.pellets, 1)
  IN  [room EXCEPT !.agents = e[1], !.pellets = e[2]]

\* refill pellets
Missing(room) == Max(0, PELLET_TARGET - Len(room.pellets))

\* A refill that tests the count once: an "if" where the code has a "while".
refillOne(room, pd) ==
  [room EXCEPT !.pellets = IF Missing(room) > 0 THEN Append(@, makePellet(pd[1])) ELSE @]

refill(room, pd) ==
  [room EXCEPT !.pellets = @ \o [k \in 1..Missing(room) |-> makePellet(pd[k])]]

\* viruses pop big blobs
POP_R == 62

\* Math.sqrt(8) as a fraction of U, and b.r / Math.sqrt(8).
SQRT8 == 282843
pieceRadius(r) == Max(MIN_R * U, FracDiv(r, SQRT8))

fragments(b, fs) ==
  [k \in 1..PIECES |->
     [ x |-> b.x + Mul(b.r + 10 * U, fs[k].dx),
       y |-> b.y + Mul(b.r + 10 * U, fs[k].dy),
       vx |-> Mul(270 * U + fs[k].s1 * 220, fs[k].dx),
       vy |-> Mul(270 * U + fs[k].s2 * 220, fs[k].dy),
       mass |-> b.mass \div PIECES,
       r |-> pieceRadius(b.r),
       splitTimer |-> 0 ]]

Touches(b, v) == Near(b.x - v.x, b.y - v.y, b.r + v.r)

\* a.blobs.splice(bi, 1)
Splice(blobs, bi) == IF bi <= Len(blobs) THEN Remove(blobs, bi) ELSE blobs

RECURSIVE virusLoop(_, _, _, _, _, _)
\* The inner loop over the viruses for the blob object b read at index bi:
\* <<blobs, next pop draw>>.
virusLoop(blobs, bi, b, vs, xd, k) ==
  IF vs = <<>> THEN <<blobs, k>>
  ELSE LET v == Head(vs)
       IN  IF Touches(b, v)
           THEN IF b.r >= POP_R * U
                THEN virusLoop(Splice(blobs, bi) \o fragments(b, xd[k]),
                               bi, b, Tail(vs), xd, k + 1)
                ELSE LET n == normalize(b.x - v.x, b.y - v.y, 1)
                         b2 == [b EXCEPT !.vx = @ + 220 * n[1], !.vy = @ + 220 * n[2]]
                     IN  virusLoop([blobs EXCEPT ![bi] = b2], bi, b2, Tail(vs), xd, k)
           ELSE virusLoop(blobs, bi, b, Tail(vs), xd, k)

RECURSIVE virusBlobs(_, _, _, _, _)
virusBlobs(blobs, bi, vs, xd, k) ==
  IF bi = 0 THEN <<blobs, k>>
  ELSE LET e == virusLoop(blobs, bi, blobs[bi], vs, xd, k)
       IN  virusBlobs(e[1], bi - 1, vs, xd, e[2])

RECURSIVE virusAgents(_, _, _, _, _)
virusAgents(agents, i, vs, xd, k) ==
  IF i > Len(agents) THEN agents
  ELSE IF agents[i].dead THEN virusAgents(agents, i + 1, vs, xd, k)
  ELSE LET e == virusBlobs(agents[i].blobs, Len(agents[i].blobs), vs, xd, k)
       IN  virusAgents([agents EXCEPT ![i].blobs = e[1]], i + 1, vs, xd, e[2])

virusStep(room, xd) ==
  [room EXCEPT !.agents = virusAgents(@, 1, room.viruses, xd, 1)]

RECURSIVE SumSeq(_)
SumSeq(s) == IF s = <<>> THEN 0 ELSE Head(s) + SumSeq(Tail(s))

\* The number of pops of the virus step: one per big blob and virus it touches.
PopsOf(b, vs) ==
  IF b.r >= POP_R * U
  THEN Cardinality({j \in DOMAIN vs : Touches(b, vs[j])})
  ELSE 0
PopCount(room) ==
  SumSeq([i \in DOMAIN room.agents |->
            IF room.agents[i].dead THEN 0
            ELSE SumSeq([k \in DOMAIN room.agents[i].blobs |->
                           PopsOf(room.agents[i].blobs[k], room.viruses)])])

\* eat players (engulf rule)
\* A ratio clamped to 0.12..1: the eater may take all of the eaten mass.
eatRatioWhole(eaten, eater) == clamp(FracDiv(eaten.mass, Max(U, eater.mass)), 12000, U)

eatRatio(eaten, eater) == clamp(FracDiv(eaten.mass, Max(U, eater.mass)), 12000, 50000)
\* An engulf test that is content with two blobs that touch.
EngulfsTouching(eb, pb) == canEat(eb.r, pb.r) /\ Touches(eb, pb)

Engulfs(eb, pb) == canEat(eb.r, pb.r) /\ canEngulf(eb.x, eb.y, eb.r, pb.x, pb.y, pb.r)

\* One engulfment of the history the engulf loops keep for the properties
\* below: the two blobs as the check found them, the eater as it grew, which
\* agent of the pair ate, at which indices the check read the two blobs, and
\* how many blobs each agent lost by the check.
Engulfed(ab, bb, ai, bi, grown, by, A, B, A2, B2) ==
  [ pair |-> <<A.id, B.id>>, ai |-> ai, bi |-> bi,
    eater |-> IF by = "A" THEN ab ELSE bb,
    eaten |-> IF by = "A" THEN bb ELSE ab,
    grown |-> grown,
    by |-> by,
    lost |-> <<Len(A.blobs) - Len(A2.blobs), Len(B.blobs) - Len(B2.blobs)>> ]

RECURSIVE engulfBB(_, _, _, _, _)
\* The loop over B's blobs for A's blob ai: <<A, B, log>>; it stops when ai is
\* eaten.
engulfBB(A, B, ai, bi, log) ==
  IF bi = 0 THEN <<A, B, log>>
  ELSE LET ab == A.blobs[ai]
           bb == B.blobs[bi]
       IN  IF Engulfs(ab, bb)
           THEN LET A2 == [A EXCEPT !.blobs[ai] = grow(ab, MulFrac(bb.mass, eatRatio(bb, ab)))]
                    B2 == [B EXCEPT !.blobs = Remove(@, bi)]
                IN  engulfBB(A2, B2, ai, bi - 1,
                             Append(log, Engulfed(ab, bb, ai, bi, A2.blobs[ai], "A", A, B, A2, B2)))
           ELSE IF Engulfs(bb, ab)
           THEN LET A2 == [A EXCEPT !.blobs = Remove(@, ai)]
                    B2 == [B EXCEPT !.blobs[bi] = grow(bb, MulFrac(ab.mass, eatRatio(ab, bb)))]
                IN  <<A2, B2,
                      Append(log, Engulfed(ab, bb, ai, bi, B2.blobs[bi], "B", A, B, A2, B2))>>
           ELSE engulfBB(A, B, ai, bi - 1, log)

RECURSIVE engulfAB(_, _, _, _)
engulfAB(A, B, ai, log) ==
  IF ai = 0 THEN <<A, B, log>>
  ELSE LET e == engulfBB(A, B, ai, Len(B.blobs), log)
       IN  engulfAB(e[1], e[2], ai - 1, e[3])

\* An agent that lost its last blob and is not marked.
markDeadNever(a) == a

markDead(a) == IF a.blobs = <<>> THEN [a EXCEPT !.dead = TRUE] ELSE a

\* A pair check that marks only the second agent of the pair.
engulfPairMarksB(agents, i, j, log) ==
  IF agents[j].dead THEN <<agents, log>>
  ELSE LET e == engulfAB(agents[i], agents[j], Len(agents[i].blobs), log)
       IN  <<[agents EXCEPT ![i] = e[1], ![j] = markDead(e[2])], e[3]>>

engulfPair(agents, i, j, log) ==
  IF agents[j].dead THEN <<agents, log>>
  ELSE LET e == engulfAB(agents[i], agents[j], Len(agents[i].blobs), log)
       IN  <<[agents EXCEPT ![i] = markDead(e[1]), ![j] = markDead(e[2])], e[3]>>

RECURSIVE engulfJ(_, _, _, _)
engulfJ(agents, i, j, log) ==
  IF j > Len(agents) THEN <<agents, log>>
  ELSE LET e == engulfPair(agents, i, j, log)
       IN  engulfJ(e[1], i, j + 1, e[2])

RECURSIVE engulfI(_, _, _)
engulfI(agents, i, log) ==
  IF i > Len(agents) THEN <<agents, log>>
  ELSE IF agents[i].dead THEN engulfI(agents, i + 1, log)
  ELSE LET e == engulfJ(agents, i, i + 1, log)
       IN  engulfI(e[1], i + 1, e[2])

engulfStep(room) == [room EXCEPT !.agents = engulfI(@, 1, <<>>)[1]]

\* The engulfments of the step, in the order the loops make them.
engulfLog(room) == engulfI(room.agents, 1, <<>>)[2]

\* respawn bots
DeadBots(room) == {i \in DOMAIN room.agents : room.agents[i].dead /\ room.agents[i].isBot}

\* A respawn whose test is inverted: dead humans come back, dead bots do not.
respawnHumans(room, sd, clock) ==
  [room EXCEPT !.agents =
     [i \in DOMAIN room.agents |->
        IF room.agents[i].dead /\ ~room.agents[i].isBot
        THEN spawnAgent(room.agents[i].id, room.agents[i].name, FALSE,
                        CHOOSE d \in E.humanDraws : TRUE, clock)
        ELSE room.agents[i]]]

respawn(room, sd, clock) ==
  [room EXCEPT !.agents =
     [i \in DOMAIN room.agents |->
        IF room.agents[i].dead /\ room.agents[i].isBot
        THEN spawnAgent(room.agents[i].id, room.agents[i].name, TRUE, sd[i], clock)
        ELSE room.agents[i]]]

\* The rooms the steps of one tick can produce, over the draws of the tick:
\* entering the movement step, entering the virus step, entering the engulf
\* step, entering the respawn step, and at the end.
beforeMove(room, clock) ==
  LET r1 == removeInactive([room EXCEPT !.t = @ + 1], clock)
  IN  { botAI(r1, fd, cd) :
          fd \in [Foragers(r1) -> E.forageDraws], cd \in [Chasers(r1) -> E.chaseDraws] }

beforeVirus(room, clock) ==
  UNION { LET r4 == eatPellets(movement(r2))
          IN  { refill(r4, pd) : pd \in [1..Missing(r4) -> E.pelletDraws] }
          : r2 \in beforeMove(room, clock) }

beforeEngulf(room, clock) ==
  UNION { { virusStep(r5, xd) : xd \in [1..PopCount(r5) -> E.fragSeqs] }
          : r5 \in beforeVirus(room, clock) }

beforeRespawn(room, clock) ==
  UNION { { engulfStep(virusStep(r5, xd)) : xd \in [1..PopCount(r5) -> E.fragSeqs] }
          : r5 \in beforeVirus(room, clock) }

tickRoom(room, clock) ==
  UNION { { respawn(r7, sd, clock) : sd \in [DeadBots(r7) -> E.botDraws] }
          : r7 \in beforeRespawn(room, clock) }

RECURSIVE tickRooms(_, _, _)
\* The maps one round of the timer can leave: every room of todo ticked.
tickRooms(map, todo, clock) ==
  IF todo = {} THEN {map}
  ELSE LET c == CHOOSE x \in todo : TRUE
       IN  UNION { tickRooms([map EXCEPT ![c] = nr], todo \ {c}, clock) :
                     nr \in tickRoom(map[c], clock) }

\* The timer: setInterval ticks every room.  maxTicks caps room.t.
Tick ==
  /\ rooms # NoRooms
  /\ \A code \in DOMAIN rooms : rooms[code].t < E.maxTicks
  /\ rooms' \in tickRooms(rooms, DOMAIN rooms, now)
  /\ last' = Op("tick", "", NoId, FALSE, TRUE, "")
  /\ UNCHANGED <<now, nreq, env>>

Start(e) ==
  /\ rooms = NoRooms
  /\ now = 0
  /\ nreq = 0
  /\ env = e
  /\ last = Op("start", "", NoId, FALSE, TRUE, "")

Init == Start("arena")
InitDuel == Start("duel")
InitLobby == Start("lobby")
InitWall == Start("wall")
InitRun == Start("run")
InitSetup == Start("setup")

\* The server with no room yet or with one room of the feast.
InitFeast ==
  /\ rooms \in {NoRooms} \cup {[c \in {"R1"} |-> r] : r \in FeastRooms}
  /\ now = 0
  /\ nreq = 0
  /\ env = "feast"
  /\ last = Op("start", "", NoId, FALSE, TRUE, "")

\* The server with no room yet or with one room of the hunt.
InitHunt ==
  /\ rooms \in {NoRooms} \cup {[c \in {"R1"} |-> r] : r \in HuntRooms}
  /\ now = 0
  /\ nreq = 0
  /\ env = "hunt"
  /\ last = Op("start", "", NoId, FALSE, TRUE, "")

\* The server with no room yet or with one room of the division.
InitDivide ==
  /\ rooms \in {NoRooms} \cup {[c \in {"R1"} |-> r] : r \in DivideRooms}
  /\ now = 0
  /\ nreq = 0
  /\ env = "divide"
  /\ last = Op("start", "", NoId, FALSE, TRUE, "")

Next ==
  \/ \E code \in Codes, mp \in E.maxPlayers, bots \in E.bots :
       CreateRoom(code, mp, bots)
  \/ \E code \in E.reqCodes, id \in E.joinIds : Join(code, "Ann", id)
  \/ \E code \in E.reqCodes, id \in E.inputIds, q \in E.requests :
       Input(code, id, q.ax, q.ay, q.boost, q.split)
  \/ \E code \in E.reqCodes : State(code)
  \/ \E d \in E.elapse : Elapse(d)
  \/ Tick

Spec == Init /\ [][Next]_vars
SpecDuel == InitDuel /\ [][Next]_vars
SpecLobby == InitLobby /\ [][Next]_vars
SpecWall == InitWall /\ [][Next]_vars
SpecFeast == InitFeast /\ [][Next]_vars
SpecRun == InitRun /\ [][Next]_vars
SpecSetup == InitSetup /\ [][Next]_vars
SpecHunt == InitHunt /\ [][Next]_vars
SpecDivide == InitDivide /\ [][Next]_vars

\* ---- state shorthands ----
AllAgents == {<<c, i>> : c \in DOMAIN rooms, i \in 1..(BOTS_HI + MAXPLAYERS_HI + 2)}
Agents == {p \in AllAgents : p[2] \in DOMAIN rooms[p[1]].agents}
AgentAt(p) == rooms[p[1]].agents[p[2]]
BlobsOf(a) == {a.blobs[k] : k \in DOMAIN a.blobs}
Living(room) == {i \in DOMAIN room.agents : ~room.agents[i].dead}

\* C1: every blob of every agent has mass >= 10 and radius >= 14, in every
\* reachable state, blobs made by a split or a virus pop included.
C1_Floors ==
  \A p \in Agents : \A b \in BlobsOf(AgentAt(p)) :
    b.mass >= MIN_MASS * U /\ b.r >= MIN_R * U

\* The blobs of the living agents of a room lie inside the world, whole.
Inside(room) ==
  \A i \in Living(room) : \A b \in BlobsOf(room.agents[i]) :
    /\ b.r <= b.x /\ b.x <= WORLD - b.r
    /\ b.r <= b.y /\ b.y <= WORLD - b.r

\* C2 (as claimed): in the state every tick leaves behind, every blob of
\* every living agent has r <= x <= WORLD - r and r <= y <= WORLD - r.
C2_InsideAfterTick ==
  [][last'.op = "tick" => \A c \in DOMAIN rooms' : Inside(rooms'[c])]_vars

\* C2 (amended): the position the boundary clamp of the movement step gives a
\* blob of a living agent, before the knockback displacement is added to it,
\* has r <= x <= WORLD - r and r <= y <= WORLD - r (r at most WORLD / 2).
C2_ClampInside ==
  \A c \in DOMAIN rooms : \A r2 \in beforeMove(rooms[c], now) :
    \A i \in Living(r2) : \A b \in BlobsOf(r2.agents[i]) :
      2 * b.r <= WORLD =>
        LET p == clampPos(stepPos(r2.agents[i], b, agentMass(r2.agents[i])), b.r)
        IN  /\ b.r <= p[1] /\ p[1] <= WORLD - b.r
            /\ b.r <= p[2] /\ p[2] <= WORLD - b.r

\* C2 witness: a tick is about to move a blob past the west wall, so that the
\* clamp acts on it.
C2_ClampActs ==
  \E c \in DOMAIN rooms : \E r2 \in beforeMove(rooms[c], now) :
    \E i \in Living(r2) : \E b \in BlobsOf(r2.agents[i]) :
      /\ rooms[c].t < E.maxTicks
      /\ stepPos(r2.agents[i], b, agentMass(r2.agents[i]))[1] < b.r

\* The blobs of agent a the virus step pops: radius >= 62 and over a virus.
PoppedOf(a, vs) ==
  {k \in DOMAIN a.blobs :
     a.blobs[k].r >= POP_R * U /\ \E j \in DOMAIN vs : Touches(a.blobs[k], vs[j])}

\* Blob b is among the blobs bs, with its place, mass, radius and timer.
Kept(b, bs) ==
  \E k \in DOMAIN bs :
    /\ bs[k].x = b.x /\ bs[k].y = b.y /\ bs[k].mass = b.mass
    /\ bs[k].r = b.r /\ bs[k].splitTimer = b.splitTimer

\* The virus step from a5 to a6 pops n blobs of the agent as C3 says it does:
\* 7 more blobs per pop, the total mass kept (up to the rounding of mass / 8
\* in each fragment), every other blob kept.
PopsCleanly(a5, a6, vs) ==
  LET n == Cardinality(PoppedOf(a5, vs))
  IN  /\ Len(a6.blobs) = Len(a5.blobs) + (PIECES - 1) * n
      /\ agentMass(a5) - agentMass(a6) \in 0..((PIECES - 1) * n)
      /\ \A k \in DOMAIN a5.blobs \ PoppedOf(a5, vs) : Kept(a5.blobs[k], a6.blobs)

\* C3: in the virus step of every tick, for every living agent and any number
\* of viruses a blob overlaps, each blob of radius >= 62 over a virus is
\* replaced by 8 fragments: the agent's total mass is unchanged, no other blob
\* is removed, and the blob count rises by exactly 7 per popped blob.
C3_PopConserves ==
  \A c \in DOMAIN rooms : \A r5 \in beforeVirus(rooms[c], now) :
    \A xd \in [1..PopCount(r5) -> E.fragSeqs] :
      \A i \in Living(r5) :
        PopsCleanly(r5.agents[i], virusStep(r5, xd).agents[i], r5.viruses)

\* ---- requests ----
\* The agents of room code stored under id.
Holding(code, id) ==
  IF code \in DOMAIN rooms
  THEN {i \in DOMAIN rooms[code].agents : rooms[code].agents[i].id = id}
  ELSE {}

\* The largest radius among the blobs of a.
LargestR(a) == CHOOSE r \in {b.r : b \in BlobsOf(a)} : \A b \in BlobsOf(a) : b.r <= r
\* The first blob of that radius.
Largest(a) ==
  CHOOSE k \in DOMAIN a.blobs :
    a.blobs[k].r = LargestR(a) /\ \A j \in 1..(k - 1) : a.blobs[j].r < LargestR(a)

\* The step is a POST /input with split = true that finds its room and a
\* living agent i there.
SplitAsked(i) ==
  /\ last'.op = "input" /\ last'.split
  /\ i \in Holding(last'.code, last'.id)
  /\ ~rooms[last'.code].agents[i].dead
  /\ rooms[last'.code].agents[i].blobs # <<>>

\* From a to a2 the largest blob of a is halved into itself and one sibling
\* at the end of the list.  The two halves are floor(mass / 2) units each.
Halved(a, a2) ==
  LET k == Largest(a)
      n == Len(a.blobs)
  IN  /\ Len(a2.blobs) = n + 1
      /\ \A j \in DOMAIN a.blobs \ {k} : a2.blobs[j] = a.blobs[j]
      /\ a2.blobs[k].mass = a.blobs[k].mass \div 2
      /\ a2.blobs[n + 1].mass = a.blobs[k].mass \div 2
      /\ agentMass(a) - agentMass(a2) \in {0, 1}
      /\ a2.blobs[k].splitTimer = 0
      /\ a2.blobs[n + 1].splitTimer = 0

\* C4: an accepted input with split = true for an agent whose largest blob has
\* r >= 30.8 halves that blob and adds one sibling with the other half: one
\* blob more, the total mass unchanged, the other blobs unchanged, both
\* halves with splitTimer 0.
C4_SplitHalves ==
  [][\A i \in 1..(BOTS_HI + MAXPLAYERS_HI + 2) :
       (SplitAsked(i) /\ LargestR(rooms[last'.code].agents[i]) >= SPLIT_MIN_R)
         => /\ last'.ok
            /\ Halved(rooms[last'.code].agents[i], rooms'[last'.code].agents[i])]_vars

\* C4 witness: the second accepted request of the run was a split of the
\* human, who now has two blobs of equal mass with splitTimer 0.
C4_SplitDone ==
  /\ last.op = "input" /\ last.split /\ last.ok /\ last.id = P1 /\ nreq = 2
  /\ \E i \in Holding(last.code, P1) :
       LET bs == rooms[last.code].agents[i].blobs
       IN  /\ Len(bs) = 2
           /\ bs[1].splitTimer = 0 /\ bs[2].splitTimer = 0
           /\ bs[1].mass = bs[2].mass

\* C5: an accepted input with split = true for an agent whose largest blob has
\* r < 30.8 leaves the agent's blobs as they were and reports success.
C5_SmallSplitIgnored ==
  [][\A i \in 1..(BOTS_HI + MAXPLAYERS_HI + 2) :
       (SplitAsked(i) /\ LargestR(rooms[last'.code].agents[i]) < SPLIT_MIN_R)
         => /\ last'.ok
            /\ rooms'[last'.code].agents[i].blobs = rooms[last'.code].agents[i].blobs]_vars

\* C5 witness: the first accepted request of the run was a split asked of a
\* bot of radius below 30.8, which still has its one blob.
C5_SplitIgnored ==
  /\ last.op = "input" /\ last.split /\ last.ok /\ nreq = 1
  /\ \E i \in Holding(last.code, last.id) :
       LET bs == rooms[last.code].agents[i].blobs
       IN  Len(bs) = 1 /\ bs[1].r < SPLIT_MIN_R /\ bs[1].r >= MIN_R * U

\* ---- bots ----
\* Agent b is agent a spawned again: a living bot of the same id and name
\* with one blob at rest, of a bot's starting mass and radius.
Respawned(a, b) ==
  /\ b.id = a.id /\ b.name = a.name /\ b.isBot /\ ~b.dead
  /\ Len(b.blobs) = 1
  /\ b.blobs[1].vx = 0 /\ b.blobs[1].vy = 0
  /\ b.blobs[1].splitTimer = 999 * TICK_RATE
  /\ b.blobs[1].mass >= 32 * U /\ b.blobs[1].mass < 102 * U
  /\ b.blobs[1].r >= 22 * U /\ b.blobs[1].r < 42 * U

\* C6: no bot is dead between ticks, and the respawn step that ends a tick
\* replaces every bot that died in the tick by a freshly spawned living bot
\* of the same id and name with one blob, and leaves the other agents alone.
C6_BotsRespawned ==
  /\ \A p \in Agents : AgentAt(p).isBot => ~AgentAt(p).dead /\ AgentAt(p).blobs # <<>>
  /\ \A c \in DOMAIN rooms : \A r7 \in beforeRespawn(rooms[c], now) :
       \A sd \in [DeadBots(r7) -> E.botDraws] :
         LET r8 == respawn(r7, sd, now)
         IN  /\ DOMAIN r8.agents = DOMAIN r7.agents
             /\ \A i \in DOMAIN r7.agents :
                  IF r7.agents[i].isBot /\ r7.agents[i].dead
                  THEN Respawned(r7.agents[i], r8.agents[i])
                  ELSE r8.agents[i] = r7.agents[i]

\* C6 witness: a tick has ended with a bot it spawned afresh.
C6_FreshBot ==
  /\ last.op = "tick"
  /\ \E p \in Agents :
       /\ rooms[p[1]].t >= 1
       /\ AgentAt(p).isBot /\ ~AgentAt(p).dead
       /\ Len(AgentAt(p).blobs) = 1
       /\ AgentAt(p).blobs[1].splitTimer = 999 * TICK_RATE

\* C7: the number of bot agents of a room equals the bot count the room was
\* created with, in every reachable state.
C7_BotCount ==
  \A c \in DOMAIN rooms : Cardinality(Bots(rooms[c])) = rooms[c].bots

\* ---- inactive humans ----
IdsOf(room) == {room.agents[i].id : i \in DOMAIN room.agents}
BotIdsOf(room) == {room.agents[i].id : i \in Bots(room)}
Expired(a) == ~a.isBot /\ now - a.lastSeen > PLAYER_TTL
\* The room without its expired humans.
Unexpired(room) == [room EXCEPT !.agents = SelectSeq(@, LAMBDA a : ~Expired(a))]

\* C8: a tick deletes every human whose lastSeen is more than 12 s old, before
\* any other step (the tick is a tick of the room without them), and keeps
\* every bot and every other human in the room.
C8_StaleHumansLeave ==
  [][last'.op = "tick" =>
       \A c \in DOMAIN rooms :
         /\ \A i \in DOMAIN rooms[c].agents :
              LET a == rooms[c].agents[i]
              IN  IF Expired(a) THEN a.id \notin IdsOf(rooms'[c])
                  ELSE IF a.isBot THEN a.id \in BotIdsOf(rooms'[c])
                  ELSE a.id \in IdsOf(rooms'[c])
         /\ rooms'[c] \in tickRoom(Unexpired(rooms[c]), now)]_vars

\* C8 witness: a human joined, and a tick has left the room with its bot and
\* no human.
C8_HumanGone ==
  /\ last.op = "tick" /\ nreq >= 1 /\ now > PLAYER_TTL
  /\ \E c \in DOMAIN rooms : Humans(rooms[c]) = {} /\ Bots(rooms[c]) # {}

\* ---- capacity ----
\* C9: a room never holds more humans than its maxPlayers; a join to a room
\* whose human count equals maxPlayers is rejected with 'Room full', a join
\* to an unknown room with 'Room not found', and neither changes any room.
C9_RoomNeverOverfull ==
  [][/\ \A c \in DOMAIN rooms' :
          Cardinality(Humans(rooms'[c])) <= rooms'[c].maxPlayers
     /\ (last'.op = "join" /\ last'.code \notin DOMAIN rooms)
          => ~last'.ok /\ last'.error = "Room not found" /\ rooms' = rooms
     /\ (/\ last'.op = "join" /\ last'.code \in DOMAIN rooms
         /\ Cardinality(Humans(rooms[last'.code])) = rooms[last'.code].maxPlayers)
          => ~last'.ok /\ last'.error = "Room full" /\ rooms' = rooms]_vars

\* C9 witness: a join has been rejected by a room that holds maxPlayers humans.
C9_JoinRefused ==
  /\ last.op = "join" /\ ~last.ok /\ last.error = "Room full"
  /\ last.code \in DOMAIN rooms
  /\ Cardinality(Humans(rooms[last.code])) = rooms[last.code].maxPlayers

\* C10: an input for an unknown room, an unknown agent id or a dead agent
\* reports ok: false and changes no room.
C10_RejectedInput ==
  [][(/\ last'.op = "input"
      /\ \A i \in Holding(last'.code, last'.id) : rooms[last'.code].agents[i].dead)
       => ~last'.ok /\ rooms' = rooms]_vars

\* C10 witness: an input for a dead agent has been refused.
C10_DeadRefused ==
  /\ last.op = "input" /\ ~last.ok
  /\ \E i \in Holding(last.code, last.id) : rooms[last.code].agents[i].dead

\* The room as a tick finds it once the clock has advanced and the timed-out
\* humans have left.
Entering(room, clock) == removeInactive([room EXCEPT !.t = @ + 1], clock)

\* C12: a room's tick is reproducible from its state and the draws of its
\* seeded generator: two rooms in the same state that take the same tick with
\* the same seeded draws (forage targets, pellets, spawns) hold the same agents
\* after the bot decisions and after the virus step, whatever else happens.
C12_Reproducible ==
  \A c \in DOMAIN rooms :
    LET r1 == Entering(rooms[c], now)
    IN  /\ \A fd \in [Foragers(r1) -> E.forageDraws] :
             \A cd1, cd2 \in [Chasers(r1) -> E.chaseDraws] :
               botAI(r1, fd, cd1) = botAI(r1, fd, cd2)
        /\ \A r5 \in beforeVirus(rooms[c], now) :
             \A xd1, xd2 \in [1..PopCount(r5) -> E.fragSeqs] :
               virusStep(r5, xd1) = virusStep(r5, xd2)

\* C13: the pellets are refilled once per tick, after all pellet eating and
\* before the steps that eat nothing: the refill only appends to what the
\* eating left, it brings the count to PELLET_TARGET, the pellets it leaves are
\* the pellets at the end of the tick, and every state between two operations
\* holds at least PELLET_TARGET pellets.
C13_PelletsKept ==
  \A c \in DOMAIN rooms :
    /\ Len(rooms[c].pellets) >= PELLET_TARGET
    /\ \A r2 \in beforeMove(rooms[c], now) :
         LET r4 == eatPellets(movement(r2))
         IN  \A pd \in [1..Missing(r4) -> E.pelletDraws] :
               LET r5 == refill(r4, pd)
               IN  /\ Len(r5.pellets) >= PELLET_TARGET
                   /\ SubSeq(r5.pellets, 1, Len(r4.pellets)) = r4.pellets
                   /\ \A xd \in [1..PopCount(r5) -> E.fragSeqs] :
                        LET r7 == engulfStep(virusStep(r5, xd))
                        IN  \A sd \in [DeadBots(r7) -> E.botDraws] :
                              respawn(r7, sd, now).pellets = r5.pellets

\* A tick has ended in which a lone bot ate both pellets of the room, and the
\* room is full again.
C13_Refilled ==
  \E c \in DOMAIN rooms :
    /\ last.op = "tick"
    /\ Len(rooms[c].agents) = 1
    /\ Len(rooms[c].pellets) = PELLET_TARGET
    /\ LET a == rooms[c].agents[1]
       IN  /\ a.isBot /\ Len(a.blobs) = 1 /\ rooms[c].t = 1
           /\ a.blobs[1].mass >= FatBot.um * 70 + 32 * U + 3 * U

BlobCount(room) == SumSeq([i \in DOMAIN room.agents |-> Len(room.agents[i].blobs)])

\* The engulf rule on the two blobs of an engulfment, written out: the eater's
\* radius is above 1.12 times the eaten radius, and the centres are closer
\* than the eater's radius less 0.65 times the eaten radius (to 0.01).
RuleHolds(e) ==
  LET R == e.eater.r - (e.eaten.r * 13) \div 20
      dx == Abs(e.eater.x - e.eaten.x) \div 1000
      dy == Abs(e.eater.y - e.eaten.y) \div 1000
  IN  /\ 25 * e.eater.r > 28 * e.eaten.r
      /\ R > 0
      /\ dx * 1000 < R /\ dy * 1000 < R
      /\ dx * dx + dy * dy < (R \div 1000) * (R \div 1000)

\* The check of engulfment l comes after engulfment k of the same pair of
\* agents and reads blobs that are still there: a lower index of the first
\* agent, or the same blob of the first agent (which ate) against a lower
\* index of the second.
ReadsOn(k, l) ==
  \/ l.ai < k.ai
  \/ k.by = "A" /\ l.ai = k.ai /\ l.bi < k.bi

EngulfsByRule(r6) ==
  LET log == engulfLog(r6)
  IN  /\ \A k \in DOMAIN log :
           /\ RuleHolds(log[k])
           /\ log[k].lost = IF log[k].by = "A" THEN <<0, 1>> ELSE <<1, 0>>
      /\ \A k, l \in DOMAIN log :
           k < l /\ log[k].pair = log[l].pair => ReadsOn(log[k], log[l])
      /\ BlobCount(r6) - BlobCount(engulfStep(r6)) = Len(log)

\* C14: in the engulf step a blob is removed only by a check in which a blob of
\* the other agent of the pair passes the engulf rule against it (radius above
\* 1.12 times its radius, centre distance below the eater's radius less 0.65
\* times its radius); a check removes one blob, never the eater; and a check
\* after it reads only blobs that are still in the lists.
C14_EngulfRule ==
  \A c \in DOMAIN rooms :
    \A r6 \in beforeEngulf(rooms[c], now) : EngulfsByRule(r6)

\* The coming engulf step makes two engulfments in one pair of agents.
C14_Engulfing ==
  \E c \in DOMAIN rooms :
    \E r6 \in beforeEngulf(rooms[c], now) :
      LET log == engulfLog(r6)
      IN  /\ Len(log) >= 2
          /\ \E k, l \in DOMAIN log : k < l /\ log[k].pair = log[l].pair

\* The scenario of the feast: agent ia with one blob of radius 100 and agent
\* ib with one blob of radius 50 on the same spot, both living, no third agent,
\* no virus touching either blob; the big blob lies inside the world, neither
\* blob is being knocked back, and no human of the two has timed out.
IsFeast(room, ia, ib) ==
  /\ DOMAIN room.agents = {ia, ib} /\ ia # ib
  /\ \A i \in {ia, ib} :
       LET a == room.agents[i]
       IN  /\ ~a.dead /\ Len(a.blobs) = 1
           /\ a.blobs[1].vx = 0 /\ a.blobs[1].vy = 0
           /\ \A k \in DOMAIN room.viruses : ~Touches(a.blobs[1], room.viruses[k])
           /\ (a.isBot \/ now - a.lastSeen <= PLAYER_TTL)
  /\ LET ab == room.agents[ia].blobs[1]
         bb == room.agents[ib].blobs[1]
     IN  /\ ab.r = 100 * U /\ bb.r = 50 * U
         /\ ab.x = bb.x /\ ab.y = bb.y
         /\ ab.x >= ab.r /\ ab.x <= WORLD - ab.r
         /\ ab.y >= ab.r /\ ab.y <= WORLD - ab.r

\* The outcome of the feast in the room nr the tick leaves, r6 being the room
\* as it entered the engulf step: B's blob is gone (B dead, or a bot that has
\* respawned), A lives with one blob, and A's mass is its mass before the
\* engulfment plus B's mass times clamp(B's mass / A's mass, 0.12, 0.50).
Feasted(r6, nr, ia, ib) ==
  LET ab == r6.agents[ia].blobs[1]
      bb == r6.agents[ib].blobs[1]
      A == nr.agents[ia]
      B == nr.agents[ib]
  IN  /\ ~A.dead /\ Len(A.blobs) = 1
      /\ A.blobs[1].mass =
           ab.mass + MulFrac(bb.mass, clamp(FracDiv(bb.mass, Max(U, ab.mass)), 12000, 50000))
      /\ IF B.isBot
         THEN \E d \in E.botDraws : B = spawnAgent(B.id, B.name, TRUE, d, now)
         ELSE B.dead /\ B.blobs = <<>>

Runner(room) ==
  /\ Len(room.agents) = 1
  /\ LET a == room.agents[1]
     IN  /\ ~a.isBot /\ ~a.dead /\ Len(a.blobs) = 1
         /\ a.aimX = U /\ a.aimY = 0
         /\ a.blobs[1].vx = 0 /\ a.blobs[1].vy = 0
         /\ now - a.lastSeen <= PLAYER_TTL

\* The blob is at the east limit: within 0.02 of WORLD - r.  (The decay of a
\* tick takes less than 0.012 off r after the clamp has used r.)
Reached(b) == b.x >= WORLD - b.r - 2000

Heavier(b, extra) == [b EXCEPT !.mass = @ + extra, !.r = @ + MulFrac(extra, 22000)]

\* The gains tried on every blob: 0.00001, 1, 2.5 and 110.
Amounts == {1, U, 2 * U + 50000, 110 * U}

\* The masses tried for every blob: its own, the soft cap, just above the cap,
\* and 6000 more than its own.
Extras(b) == {0, Max(0, 1400 * U - b.mass), Max(0, 1400 * U - b.mass) + 1, 6000 * U}

GrowsAsClaimed(b, amount) ==
  LET g == grow(b, amount)
      gain == g.mass - b.mass
  IN  /\ b.mass <= 1400 * U => gain = amount
      /\ b.mass > 1400 * U =>
           /\ gain = MulFrac(amount, clamp(FracDiv(1400 * U, b.mass), 25000, U))
           /\ gain < amount
           /\ gain >= MulFrac(amount, 25000)
      /\ g.r - b.r = MulFrac(gain, 22000)
      /\ g.r >= b.r

\* C17: grow(b, amount) with amount > 0 adds exactly amount to a mass at or
\* below 1400 and amount * clamp(1400 / mass, 0.25, 1) to a mass above 1400,
\* which is less than amount and at least a quarter of it; the radius gains
\* 0.22 times the mass gained and never shrinks.
C17_GrowGain ==
  \A p \in Agents :
    \A b \in BlobsOf(AgentAt(p)) :
      \A extra \in Extras(b), amount \in Amounts :
        GrowsAsClaimed(Heavier(b, extra), amount)

\* A tick has fed a blob above the soft cap: the blob of mass 1500 of the feast
\* has eaten and holds more than 1500.
C17_GrownAboveCap ==
  /\ last.op = "tick"
  /\ \E p \in Agents :
       \E b \in BlobsOf(AgentAt(p)) : b.mass > 1500 * U /\ b.mass < 1600 * U

\* v clamped to lo..hi, written out.
Within(v, lo, hi) == IF v < lo THEN lo ELSE IF v > hi THEN hi ELSE v

\* The room createRoom(maxPlayers, bots) is to leave.
Made(room, maxPlayers, bots) ==
  /\ room.maxPlayers = Within(maxPlayers, MAXPLAYERS_LO, MAXPLAYERS_HI)
  /\ room.bots = Within(bots, 0, BOTS_HI)
  /\ Len(room.pellets) = PELLET_TARGET
  /\ Len(room.viruses) = VIRUS_COUNT
  /\ Len(room.agents) = room.bots
  /\ Humans(room) = {}
  /\ \A i, j \in DOMAIN room.agents : i # j => room.agents[i].id # room.agents[j].id
  /\ \A i \in DOMAIN room.agents :
       LET a == room.agents[i]
       IN  /\ a.isBot /\ ~a.dead /\ Len(a.blobs) = 1
           /\ a.blobs[1].x >= 280 * U /\ a.blobs[1].x <= WORLD - 280 * U
           /\ a.blobs[1].y >= 280 * U /\ a.blobs[1].y <= WORLD - 280 * U

\* C18: createRoom(maxPlayers, bots) leaves a room whose maxPlayers and bot
\* count are the requests clamped to their ranges, with PELLET_TARGET pellets,
\* VIRUS_COUNT viruses, that many bots with pairwise distinct ids, each alive
\* with one blob at least 280 from every edge of the world, and no human.
C18_RoomMade ==
  [][\A code \in Codes, mp \in E.maxPlayers, bots \in E.bots :
       CreateRoom(code, mp, bots) => Made(rooms'[code], mp, bots)]_vars

\* A room has just been made with MAXPLAYERS_LO places and BOTS_HI bots, as a
\* request for one place too few and one bot too many gets it, one of the bots
\* at the far end of the spawn range.
C18_ClampedRoom ==
  \E c \in DOMAIN rooms :
    /\ last.op = "create"
    /\ rooms[c].maxPlayers = MAXPLAYERS_LO
    /\ Len(rooms[c].agents) = BOTS_HI
    /\ \E i \in DOMAIN rooms[c].agents : rooms[c].agents[i].blobs[1].x > WORLD - 281 * U

\* What the claim asks of the snapshot s of a room.
SnapshotOK(room, s) ==
  LET alive == SelectSeq(room.agents, LAMBDA a : ~a.dead)
      lb == s.leaderboard
      MassOf(id) == floorMass(room.agents[IndexOf(room.agents, id)])
      Listed == {lb[k].id : k \in DOMAIN lb}
  IN  /\ [k \in DOMAIN s.players |-> s.players[k].id] = [k \in DOMAIN alive |-> alive[k].id]
      /\ Len(lb) <= LEADERBOARD_SIZE
      /\ Len(lb) = Min(LEADERBOARD_SIZE, Len(alive))
      /\ Cardinality(Listed) = Len(lb)
      /\ \A k \in DOMAIN lb :
           /\ \E i \in Living(room) : room.agents[i].id = lb[k].id
           /\ lb[k].mass = MassOf(lb[k].id)
      /\ \A k, l \in DOMAIN lb : k < l => lb[k].mass >= lb[l].mass
      /\ \A i \in Living(room) :
           room.agents[i].id \notin Listed =>
             \A k \in DOMAIN lb : floorMass(room.agents[i]) <= lb[k].mass

\* C19: a snapshot lists exactly the agents that are not dead; its leaderboard
\* holds at most LEADERBOARD_SIZE entries, all of living agents, by total
\* (floored) mass descending, and no living agent left out is heavier than one
\* that is in; taking the snapshot changes nothing in the room.
C19_SnapshotReads ==
  [][last'.op = "state" =>
       /\ rooms' = rooms
       /\ last'.ok = (last'.code \in DOMAIN rooms)
       /\ last'.ok =>
            SnapshotOK(rooms[last'.code], getSnapshot(rooms'[last'.code]))]_vars

\* A snapshot has been taken of a room with more living agents than the
\* leaderboard holds, two of them of the same mass.
C19_SnapshotTaken ==
  /\ last.op = "state" /\ last.ok
  /\ Cardinality(Living(rooms[last.code])) > LEADERBOARD_SIZE
  /\ \E i, j \in Living(rooms[last.code]) :
       i # j /\ floorMass(rooms[last.code].agents[i]) = floorMass(rooms[last.code].agents[j])

TotalMass(room) == SumSeq([i \in DOMAIN room.agents |-> agentMass(room.agents[i])])

\* The gain of grow(eater, eatenMass * clamp(eatenMass / max(1, eaterMass),
\* 0.12, 0.50)), written out.
EngulfGain(eater, eaten) ==
  LET ratio == FracDiv(eaten.mass, IF eater.mass > U THEN eater.mass ELSE U)
      share == IF ratio < 12000 THEN 12000 ELSE IF ratio > 50000 THEN 50000 ELSE ratio
      cut == FracDiv(1400 * U, eater.mass)
      penalty == IF eater.mass <= 1400 * U THEN U
                 ELSE IF cut < 25000 THEN 25000 ELSE cut
  IN  MulFrac(MulFrac(eaten.mass, share), penalty)

GainsByRule(r6) ==
  LET log == engulfLog(r6)
  IN  /\ \A k \in DOMAIN log :
           LET e == log[k]
               gain == e.grown.mass - e.eater.mass
           IN  /\ gain = EngulfGain(e.eater, e.eaten)
               /\ gain > 0
               /\ 2 * gain <= e.eaten.mass
               /\ e.grown.mass <= e.eater.mass + e.eaten.mass
               /\ e.grown.r >= e.eater.r
               /\ e.grown.r - e.eater.r = MulFrac(gain, 22000)
      /\ TotalMass(engulfStep(r6)) <= TotalMass(r6)

\* C20: each engulfment raises the eater's mass by the gain of grow(eater,
\* eatenMass * clamp(eatenMass / max(1, eaterMass), 0.12, 0.50)), which is
\* positive and at most half of the eaten mass; so the mass of the pair, and of
\* the room, does not increase through the engulf step, and the eater's mass
\* and radius do not decrease.
C20_EngulfGain ==
  \A c \in DOMAIN rooms :
    \A r6 \in beforeEngulf(rooms[c], now) : GainsByRule(r6)

\* A tick has let the blob of mass 240 engulf the blob of mass 220: the ratio
\* is clamped to 0.50 and the eater holds 240 plus 110 and the pellets.
C20_HalfTaken ==
  \E c \in DOMAIN rooms :
    /\ last.op = "tick" /\ rooms[c].t = 1
    /\ \E i \in Living(rooms[c]) :
         LET a == rooms[c].agents[i]
         IN  /\ a.name = "Ann" /\ Len(a.blobs) = 1
             /\ a.blobs[1].mass > 349 * U /\ a.blobs[1].mass < 354 * U
    /\ \A i \in Living(rooms[c]) : rooms[c].agents[i].name # "Bob"

\* ---- the dead flag ----
\* The dead flag of every agent of the room says that it has no blob.
DeadIffEmpty(room) ==
  \A i \in DOMAIN room.agents : room.agents[i].dead <=> room.agents[i].blobs = <<>>

\* C21: between operations an agent is dead exactly when it has no blob; the
\* engulf step of a tick, the only step that empties a blob list, leaves every
\* agent it emptied marked dead; and a tick or an input that finds an agent
\* dead leaves it in the room as it was, dead and without a blob, or (a human
\* that has timed out) removes it.
C21_DeadIffEmpty ==
  [][/\ \A c \in DOMAIN rooms' : DeadIffEmpty(rooms'[c])
     /\ last'.op = "tick" =>
          \A c \in DOMAIN rooms :
            \A r6 \in beforeEngulf(rooms[c], now) :
              /\ DeadIffEmpty(r6)
              /\ DeadIffEmpty(engulfStep(r6))
     /\ last'.op \in {"tick", "input"} =>
          \A c \in DOMAIN rooms : \A i \in DOMAIN rooms[c].agents :
            LET a == rooms[c].agents[i]
            IN  a.dead =>
                  \A k \in DOMAIN rooms'[c].agents :
                    rooms'[c].agents[k].id = a.id => rooms'[c].agents[k] = a]_vars

\* A human that joined was left dead by a tick, and a later tick has left it in
\* the room still, dead and without a blob, next to the living bot.
C21_StaysDead ==
  \E c \in DOMAIN rooms :
    /\ last.op = "tick" /\ rooms[c].t >= 2 /\ nreq >= 1
    /\ \E i \in Humans(rooms[c]) :
         rooms[c].agents[i].dead /\ rooms[c].agents[i].blobs = <<>>
    /\ \E i \in Bots(rooms[c]) : Len(rooms[c].agents[i].blobs) >= 1

\* ---- bot decisions ----
\* The blobs bot i of the room looks at: those of the other living agents.
Looked(room, i) == UNION {BlobsOf(room.agents[j]) : j \in Living(room) \ {i}}

\* The squared distance of two blobs in tenths of a world unit, read where
\* both coordinates are less than 900 apart.
Gap2(b, ob) ==
  LET dx == Abs(b.x - ob.x) \div 10000
      dy == Abs(b.y - ob.y) \div 10000
  IN  dx * dx + dy * dy

InView(b, ob) ==
  /\ Abs(b.x - ob.x) < 900 * U /\ Abs(b.y - ob.y) < 900 * U
  /\ Gap2(b, ob) < 9000 * 9000

\* Radius above 1.10 times the bot's; the bot's radius above 1.20 times it.
Threats(room, i) ==
  {ob \in Looked(room, i) :
     InView(room.agents[i].blobs[1], ob) /\ 10 * ob.r > 11 * room.agents[i].blobs[1].r}
Preys(room, i) ==
  {ob \in Looked(room, i) :
     InView(room.agents[i].blobs[1], ob) /\ 5 * room.agents[i].blobs[1].r > 6 * ob.r}

\* The blobs of S nearest to b.
NearestOf(b, S) == {t \in S : \A o \in S : Gap2(b, t) <= Gap2(b, o)}

\* A vector of length 1 (to 1 in 100), or the zero vector.
IsUnit(aim) ==
  LET x == DivT(aim[1], 100)
      y == DivT(aim[2], 100)
  IN  x * x + y * y >= 990000 /\ x * x + y * y <= 1010000
UnitOrZero(aim) == aim = <<0, 0>> \/ IsUnit(aim)

\* The decision the bot-AI step took for bot i, r1 being the room before the
\* step and r2 after it.  The aim is normalize of the difference of the two
\* centres: the zero vector when they coincide.
Decides(r1, r2, i) ==
  LET b == r1.agents[i].blobs[1]
      a2 == r2.agents[i]
      aim == <<a2.aimX, a2.aimY>>
      T == Threats(r1, i)
      P == Preys(r1, i)
  IN  /\ UnitOrZero(aim)
      /\ T # {} =>
           /\ ~a2.boost
           /\ \E t \in NearestOf(b, T) : aim = normalize(b.x - t.x, b.y - t.y, 1)
      /\ (T = {} /\ P # {}) =>
           \E p \in NearestOf(b, P) : aim = normalize(p.x - b.x, p.y - b.y, 1)
      /\ (T = {} /\ P = {}) =>
           /\ ~a2.boost
           /\ IF r1.pellets = <<>> THEN aim = <<0, 0>>
              ELSE \E k \in DOMAIN r1.pellets :
                     aim = normalize(r1.pellets[k].x - b.x, r1.pellets[k].y - b.y, 1)
      /\ a2.blobs = r1.agents[i].blobs

\* The aim is a unit vector wherever the claim says so: in flight, and in
\* foraging in a room with pellets.
AimsSomewhere(r1, r2, i) ==
  (Threats(r1, i) # {} \/ (Preys(r1, i) = {} /\ r1.pellets # <<>>))
    => IsUnit(<<r2.agents[i].aimX, r2.agents[i].aimY>>)

\* C22 (as claimed): after the bot-AI step every living bot with a threat in
\* view (a blob of another living agent within 900 of the bot's first blob,
\* radius above 1.10 times the bot's) has boost off and the unit vector from
\* the nearest threat to the bot as its aim, prey or no prey; prey (the bot's
\* radius above 1.20 times the other) is chased only without a threat; with
\* neither, boost is off and the aim is the unit vector toward a pellet of
\* the room, the zero vector in a room without pellets.
C22_BotDecides ==
  \A c \in DOMAIN rooms :
    LET r1 == Entering(rooms[c], now)
    IN  \A r2 \in beforeMove(rooms[c], now) :
          \A i \in DOMAIN r1.agents :
            BotActs(r1.agents[i]) => Decides(r1, r2, i) /\ AimsSomewhere(r1, r2, i)

\* C22 (amended): as above, the aim being normalize of the difference of the
\* two centres, which is the unit vector the claim names when the centres are
\* 1e-6 or more apart and the zero vector when the target (threat, prey or
\* pellet) lies on the bot's own centre.
C22_BotDecidesOrStalls ==
  \A c \in DOMAIN rooms :
    LET r1 == Entering(rooms[c], now)
    IN  \A r2 \in beforeMove(rooms[c], now) :
          \A i \in DOMAIN r1.agents :
            BotActs(r1.agents[i]) => Decides(r1, r2, i)

\* A tick has run in which a bot had two threats and, nearer than both, prey
\* in view: it has fled from the nearer threat, due south of it, with its aim
\* due north and boost off, and has them all in view still.
C22_ThreatAndPrey ==
  \E c \in DOMAIN rooms :
    /\ last.op = "tick" /\ rooms[c].t = 1
    /\ \E i \in DOMAIN rooms[c].agents :
         LET a == rooms[c].agents[i]
         IN  /\ BotActs(a)
             /\ Cardinality(Threats(rooms[c], i)) >= 2
             /\ Preys(rooms[c], i) # {}
             /\ \A t \in Threats(rooms[c], i) : \A p \in Preys(rooms[c], i) :
                  Gap2(a.blobs[1], t) > Gap2(a.blobs[1], p)
             /\ \A t \in NearestOf(a.blobs[1], Threats(rooms[c], i)) :
                  t.x = a.blobs[1].x /\ t.y > a.blobs[1].y
             /\ a.aimX = 0 /\ a.aimY = -U /\ ~a.boost
             /\ a.blobs[1].x = 1000 * U /\ a.blobs[1].y < 1000 * U

\* ---- repeated splits ----
RECURSIVE SplitsLeft(_)
\* How many times in a row a blob of radius r can be halved: 0 below 30.8,
\* else once more than a blob of 0.72 times the radius.
SplitsLeft(r) == IF 10 * r < 308 * U THEN 0 ELSE 1 + SplitsLeft((r * 18) \div 25)

\* The splits an agent has left: a blob that can be halved d times in a row
\* stands for 2^d - 1 of them.
Budget(a) == SumSeq([k \in DOMAIN a.blobs |-> 2 ^ SplitsLeft(a.blobs[k].r) - 1])

\* The step from a to a2 is an effective split: one blob more, one blob of a
\* (the largest) is smaller than before, and the new blob has its new radius.
Divided(a, a2) ==
  /\ Len(a2.blobs) = Len(a.blobs) + 1
  /\ \E k \in DOMAIN a.blobs :
       /\ a.blobs[k].r = LargestR(a)
       /\ a2.blobs[k].r < a.blobs[k].r
       /\ a2.blobs[Len(a2.blobs)].r = a2.blobs[k].r
       /\ \A j \in DOMAIN a.blobs \ {k} : a2.blobs[j] = a.blobs[j]

\* C23: a split request either changes nothing in the agent's blobs or is an
\* effective split, which makes the split blob strictly smaller, gives the
\* sibling the reduced radius and uses up one of the finitely many splits the
\* agent has left (Budget falls by 1 and is never negative); with none left
\* every blob has r < 30.8 and the request changes nothing.  So a run of split
\* requests without a tick changes the blobs at most Budget times, and the blob
\* count stays at or below the count at the start plus the budget at the start,
\* which is at most the count times 2 ^ SplitsLeft(largest radius).
C23_SplitsRunOut ==
  [][\A i \in 1..(BOTS_HI + MAXPLAYERS_HI + 2) :
       SplitAsked(i) =>
         LET a == rooms[last'.code].agents[i]
             a2 == rooms'[last'.code].agents[i]
         IN  /\ Budget(a) >= 0
             /\ Len(a.blobs) + Budget(a) <= Len(a.blobs) * 2 ^ SplitsLeft(LargestR(a))
             /\ IF Budget(a) = 0
                THEN /\ a2.blobs = a.blobs
                     /\ \A b \in BlobsOf(a) : 10 * b.r < 308 * U
                ELSE /\ Divided(a, a2)
                     /\ Budget(a2) = Budget(a) - 1
                     /\ Len(a2.blobs) + Budget(a2) = Len(a.blobs) + Budget(a)]_vars

\* The human of radius 100 has been split 15 times with no tick in between and
\* holds 16 blobs, all below 30.8; the 16th request has changed nothing.
C23_AllSplit ==
  /\ last.op = "input" /\ last.split /\ last.ok /\ nreq = 16
  /\ \E i \in Holding(last.code, last.id) :
       LET a == rooms[last.code].agents[i]
       IN  /\ rooms[last.code].t = 0
           /\ Len(a.blobs) = 16
           /\ Budget(a) = 0
           /\ \A b \in BlobsOf(a) : 10 * b.r < 308 * U /\ b.r > 26 * U

\* ---- mass ----
\* C24: an agent's total mass never rises in a step in which none of its blobs
\* eats: a split leaves it as it is (to the rounding of the two halves), a
\* virus pop leaves it as it is (to the rounding of the eight fragments), and
\* the movement step of a tick, which takes the decay and the boost cost off
\* every blob, only lowers it.
C24_NoMassCreated ==
  \A c \in DOMAIN rooms :
    /\ \A i \in Living(rooms[c]) :
         LET a == rooms[c].agents[i]
         IN  agentMass(a) - agentMass(splitAgent(a)) \in {0, 1}
    /\ \A r2 \in beforeMove(rooms[c], now) :
         \A i \in Living(r2) :
           agentMass(movement(r2).agents[i]) <= agentMass(r2.agents[i])
    /\ \A r5 \in beforeVirus(rooms[c], now) :
         \A xd \in [1..PopCount(r5) -> E.fragSeqs] :
           \A i \in Living(r5) :
             LET lost == agentMass(r5.agents[i]) - agentMass(virusStep(r5, xd).agents[i])
             IN  lost >= 0 /\ lost < PIECES * Len(r5.agents[i].blobs)

\* ---- joining ----
\* C25: a join that succeeds adds one agent to the room, a living human stored
\* under the identity of the request, and leaves every agent that was in the
\* room as it was and where it was, whatever identity the request carries.
C25_JoinAddsOne ==
  [][(last'.op = "join" /\ last'.ok) =>
       LET old == rooms[last'.code].agents
           new == rooms'[last'.code].agents
       IN  /\ Len(new) = Len(old) + 1
           /\ \A i \in DOMAIN old : new[i] = old[i]
           /\ new[Len(new)].id = last'.id
           /\ ~new[Len(new)].isBot /\ ~new[Len(new)].dead]_vars

====
